---- MODULE Spec2Model ----
(***************************************************************************)
(* Model of the signal-decision and simulation engine of                   *)
(* exchange-notify-tg1: the PositionTracker (analyzers/position_tracker),  *)
(* the backtest walk of EnhancedBacktester.calculate_returns (backtest.py) *)
(* and the SignalGenerator (analyzers/signal.py) with the history store    *)
(* it reads (database/manager.py).                                         *)
(*                                                                         *)
(* Numbers.  Prices, amounts and percentages are Python floats in the      *)
(* source.  The model draws prices, amounts and percentages from integers  *)
(* and keeps every derived quantity (average entry price, stop line,       *)
(* return, drawdown) as an exact rational <<num, den>> with den > 0 in     *)
(* lowest terms, so that a comparison in the model is the comparison of    *)
(* the real numbers the float expressions approximate.                     *)
(*                                                                         *)
(* Optional values.  Python's None is the empty sequence <<>> and a        *)
(* present value x is <<x>>.                                               *)
(***************************************************************************)
EXTENDS Integers, Sequences, FiniteSets, TLC

VARIABLES
    mode,           \* which entry point runs: "live", "backtest", "reversal", "signal",
                    \* "validation", "pair", "monitor", "percentile"
    stop_type,      \* PositionTracker.stop_type / risk.stop_loss_type
    stop_pct,       \* PositionTracker.stop_pct / risk.stop_loss_pct
    initial_stop,   \* PositionTracker.initial_stop / risk.initial_stop
    positions,      \* PositionTracker.positions : coin -> Position or None
    events,         \* the dictionary update_prices returned, if it was the last call made
    bt,             \* locals of one walk of calculate_returns over one BUY signal
    rev,            \* one _check_reversal call: configuration, store, arguments, result
    sig,            \* one generate_signals call: configuration, store, data, result
    new_highs_sent, \* history: coin -> new-high events appended for its current position
    mon             \* CryptoSentimentMonitor: configuration, saved signals, last cycle

vars == <<mode, stop_type, stop_pct, initial_stop, positions, events, bt, rev, sig,
          new_highs_sent, mon>>

-----------------------------------------------------------------------------
(* Bounds of the model *)

MaxPrice == 3           \* prices are 10, 15, ... : 5 * (i + 1) for i in 1 .. MaxPrice
MaxTotalAmount == 3     \* add_position is not explored beyond this total amount
MaxHoldDays == 3        \* max(hold_days) of the backtest walk
MaxHist == 2            \* stored sentiment readings
MaxK == 2               \* reversal.consecutive_periods is 1 .. MaxK
MaxFlagsOff == 1        \* strategy switches turned off together in one configuration
MaxDates == 2           \* dates of the backtest that can carry a signal

-----------------------------------------------------------------------------
(* Optional values and exact rationals *)

None == <<>>
Some(x) == <<x>>
Val(o) == o[1]

Abs(n) == IF n < 0 THEN -n ELSE n

RECURSIVE GCD(_, _)
GCD(a, b) == IF b = 0 THEN a ELSE GCD(b, a % b)

\* the rational n/d (d # 0) in lowest terms with a positive denominator
Rat(n, d) ==
    LET s == IF d < 0 THEN -1 ELSE 1
        g == GCD(Abs(n), Abs(d))
    IN  <<(s * n) \div g, (s * d) \div g>>

IntRat(n) == <<n, 1>>
RLt(a, b) == a[1] * b[2] < b[1] * a[2]
RLeq(a, b) == a[1] * b[2] <= b[1] * a[2]
REq(a, b) == a[1] * b[2] = b[1] * a[2]
RMax(a, b) == IF RLt(a, b) THEN b ELSE a
RMin(a, b) == IF RLt(b, a) THEN b ELSE a

-----------------------------------------------------------------------------
(* Domains of the inputs *)

Coins == {"BTC", "ETH"}
\* the live run follows the position of one asset; the other asset of the
\* positions dictionary stays untracked
LiveCoins == {"BTC"}
\* with MaxPrice = 3: 10, 15, 20; the trailing stop line of a peak of 20 at
\* -25% is 15 and the fixed stop line of an entry of 20 at -50% is 10, so a
\* tick can land exactly on a stop line, above it and below it
Prices == {5 * (i + 1) : i \in 1 .. MaxPrice}
Amounts == {1, 2}           \* the amount argument of add_position
Times == {1, 2}         \* values of datetime.now().isoformat() at a stop
Dates == {1}            \* values of datetime.now().strftime('%Y-%m-%d') at an open
StopTypes == {"trailing", "fixed"}
StopPcts == {-25}
InitialStops == {-50}


\* the reasons argument of add_position
ReasonArgs == {None, <<"fear">>, <<"funding">>}

\* list(set(xs)): the distinct elements of xs in an order Python does not fix
Elems(xs) == {xs[i] : i \in 1 .. Len(xs)}
ListOfSet(S) ==
    {s \in [1 .. Cardinality(S) -> S] : {s[i] : i \in 1 .. Cardinality(S)} = S}

-----------------------------------------------------------------------------
(* analyzers/position_tracker.py : class Position *)

\* Position.__init__
NewPosition(coin, entry_price, entry_date, signal_reasons, amount) ==
    [ coin              |-> coin,
      entry_price       |-> IntRat(entry_price),
      amount            |-> amount,
      entry_date        |-> entry_date,
      signal_reasons    |-> IF signal_reasons = None THEN <<>> ELSE signal_reasons,
      max_price         |-> entry_price,
      current_price     |-> entry_price,
      status            |-> "open",
      stop_triggered_at |-> None,
      stop_price        |-> None ]

\* add_amount with the old entry price counted once instead of once per unit
\* of the old amount
add_amount_unweighted(pos, price, amount) ==
    LET e == pos.entry_price
        total_num == e[1] + price * amount * e[2]
        new_amount == pos.amount + amount
    IN  [pos EXCEPT !.amount = new_amount,
                    !.entry_price = Rat(total_num, e[2] * new_amount)]

\* add_amount that also lifts the recorded peak to the fill price
add_amount_peak(pos, price, amount) ==
    LET e == pos.entry_price
        total_num == e[1] * pos.amount + price * amount * e[2]
        new_amount == pos.amount + amount
    IN  [pos EXCEPT !.amount = new_amount,
                    !.entry_price = Rat(total_num, e[2] * new_amount),
                    !.max_price = IF price > pos.max_price THEN price ELSE pos.max_price]

\* Position.add_amount: the amount-weighted average entry price; max_price,
\* current_price and status are not assigned
add_amount(pos, price, amount) ==
    LET e == pos.entry_price
        \* total_value = entry_price * self.amount + price * amount, over e[2]
        total_num == e[1] * pos.amount + price * amount * e[2]
        new_amount == pos.amount + amount
    IN  [pos EXCEPT !.amount = new_amount,
                    !.entry_price = Rat(total_num, e[2] * new_amount)]

\* update_price without the comparison with the recorded peak
update_price_mut(pos, price) ==
    [pos EXCEPT !.current_price = price, !.max_price = price]

\* Position.update_price
update_price(pos, price) ==
    [pos EXCEPT !.current_price = price,
                !.max_price = IF price > pos.max_price THEN price ELSE pos.max_price]

\* Position.get_return_pct: (current_price - entry_price) / entry_price * 100
get_return_pct(pos) ==
    LET e == pos.entry_price
    IN  Rat((pos.current_price * e[2] - e[1]) * 100, e[1])

\* Position.get_drawdown_from_max
get_drawdown_from_max(pos) ==
    IF pos.max_price = 0 THEN IntRat(0)
    ELSE Rat((pos.current_price - pos.max_price) * 100, pos.max_price)

-----------------------------------------------------------------------------
(* analyzers/position_tracker.py : class PositionTracker *)

Tracked(ps, coin) == ps[coin] # None

\* the runs that hold a PositionTracker: the live tracker of one asset and
\* the tracker of two assets each opened once
TrackerModes == {"live", "pair"}

\* _check_stop_loss without the test of the status
check_stop_loss_mut(pos) ==
    IF stop_type = "trailing"
    THEN RLeq(get_drawdown_from_max(pos), IntRat(stop_pct))
    ELSE RLeq(get_return_pct(pos), IntRat(initial_stop))

\* _check_stop_loss with strict comparisons
check_stop_loss_strict(pos) ==
    IF pos.status # "open" THEN FALSE
    ELSE IF stop_type = "trailing"
         THEN RLt(get_drawdown_from_max(pos), IntRat(stop_pct))
         ELSE RLt(get_return_pct(pos), IntRat(initial_stop))

\* PositionTracker._check_stop_loss
check_stop_loss(pos) ==
    IF pos.status # "open" THEN FALSE
    ELSE IF stop_type = "trailing"
         THEN RLeq(get_drawdown_from_max(pos), IntRat(stop_pct))
         ELSE RLeq(get_return_pct(pos), IntRat(initial_stop))

\* the stop line of one position, as PositionTracker.get_stop_line computes it
StopLineOfPos(pos) ==
    IF stop_type = "trailing"
    THEN Rat(pos.max_price * (100 + stop_pct), 100)
    ELSE Rat(pos.entry_price[1] * (100 + initial_stop), pos.entry_price[2] * 100)

\* PositionTracker.get_stop_line over a positions dictionary ps
StopLineOf(ps, coin) ==
    IF ~Tracked(ps, coin) THEN None ELSE Some(StopLineOfPos(Val(ps[coin])))

get_stop_line(coin) == StopLineOf(positions, coin)

\* the body of the loop of PositionTracker.update_prices for one coin of the
\* prices dictionary that has a position: the position afterwards and the
\* events appended for it
TickResult(coin, pos, price, now) ==
    LET old_max == pos.max_price
        old_stop_line == StopLineOfPos(pos)
        pos1 == update_price(pos, price)
        new_max == pos1.max_price
        new_stop_line == StopLineOfPos(pos1)
        is_new_high == new_max > old_max /\ REq(IntRat(old_max), pos1.entry_price)
        \* (new_stop_line - old_stop_line) / old_stop_line * 100
        raise_pct == Rat((new_stop_line[1] * old_stop_line[2]
                            - old_stop_line[1] * new_stop_line[2]) * 100,
                         new_stop_line[2] * old_stop_line[1])
        is_raised == /\ old_stop_line[1] # 0
                     /\ new_stop_line[1] # 0
                     /\ RLt(old_stop_line, new_stop_line)
                     /\ RLeq(IntRat(2), raise_pct)
        stop_triggered == check_stop_loss(pos1)
        pos2 == IF stop_triggered
                THEN [pos1 EXCEPT !.status = "stopped",
                                  !.stop_triggered_at = Some(now),
                                  !.stop_price = Some(price)]
                ELSE pos1
    IN  [ pos |-> pos2,
          new_highs |->
              IF is_new_high
              THEN {[coin |-> coin, entry_price |-> pos1.entry_price,
                     new_high |-> new_max, return_pct |-> get_return_pct(pos1)]}
              ELSE {},
          stop_line_raised |->
              IF is_raised
              THEN {[coin |-> coin, old_stop |-> old_stop_line,
                     new_stop |-> new_stop_line, raise_pct |-> raise_pct,
                     current_price |-> price]}
              ELSE {},
          stopped |->
              IF stop_triggered
              THEN {[coin |-> coin, entry_price |-> pos2.entry_price,
                     stop_price |-> price, return_pct |-> get_return_pct(pos2),
                     max_price |-> pos2.max_price,
                     drawdown |-> get_drawdown_from_max(pos2)]}
              ELSE {} ]

NoEvents == [stopped |-> {}, new_highs |-> {}, stop_line_raised |-> {}]

\* the history of new-high events: none (0), one (1) or several (2)
NoneSent == [c \in Coins |-> 0]
Sent(n) == IF n = 0 THEN 1 ELSE 2

\* the monitor before any cycle, in the runs that have none
MonOff == [pc |-> "off"]

\* the dictionaries update_prices can be given: coin -> price, None = no key
PriceMaps ==
    {m \in [Coins -> {None} \cup {Some(p) : p \in Prices}] :
        \A c \in Coins \ LiveCoins : m[c] = None}

Ticked(prices) == {c \in Coins : prices[c] # None /\ Tracked(positions, c)}

\* PositionTracker.add_position
add_position(coin, price, reasons, amount, today) ==
    /\ mode \in TrackerModes
    /\ IF Tracked(positions, coin)
       THEN LET pos == Val(positions[coin])
                pos1 == add_amount(pos, price, amount)
            IN  /\ pos.amount + amount <= MaxTotalAmount
                /\ IF reasons # None /\ reasons # <<>>
                   THEN \E rs \in ListOfSet(Elems(pos1.signal_reasons \o reasons)) :
                            positions' = [positions EXCEPT ![coin] =
                                            Some([pos1 EXCEPT !.signal_reasons = rs])]
                   ELSE positions' = [positions EXCEPT ![coin] = Some(pos1)]
       ELSE positions' = [positions EXCEPT ![coin] =
                            Some(NewPosition(coin, price, today, reasons, amount))]
    /\ new_highs_sent' = IF Tracked(positions, coin) THEN new_highs_sent
                          ELSE [new_highs_sent EXCEPT ![coin] = 0]
    /\ events' = NoEvents
    /\ UNCHANGED <<mode, stop_type, stop_pct, initial_stop, bt, rev, sig, mon>>

\* the loop left after the first position it stops
RECURSIVE UpdateLoop_break(_, _, _, _)
UpdateLoop_break(st, prices, order, now) ==
    IF order = <<>> THEN st
    ELSE LET coin == Head(order)
         IN  IF ~Tracked(st.positions, coin)
             THEN UpdateLoop_break(st, prices, Tail(order), now)
             ELSE LET r == TickResult(coin, Val(st.positions[coin]), Val(prices[coin]), now)
                      st1 == [ positions |-> [st.positions EXCEPT ![coin] = Some(r.pos)],
                               events |-> [ stopped |-> st.events.stopped \cup r.stopped,
                                            new_highs |-> st.events.new_highs \cup r.new_highs,
                                            stop_line_raised |->
                                                st.events.stop_line_raised
                                                    \cup r.stop_line_raised ] ]
                  IN  IF r.stopped # {} THEN st1
                      ELSE UpdateLoop_break(st1, prices, Tail(order), now)

\* the loop of update_prices over the keys of the prices dictionary in the
\* order the dictionary yields them: the positions and the events after it
RECURSIVE UpdateLoop(_, _, _, _)
UpdateLoop(st, prices, order, now) ==
    IF order = <<>> THEN st
    ELSE LET coin == Head(order)
         IN  IF ~Tracked(st.positions, coin)
             THEN UpdateLoop(st, prices, Tail(order), now)
             ELSE LET r == TickResult(coin, Val(st.positions[coin]), Val(prices[coin]), now)
                  IN  UpdateLoop(
                        [ positions |-> [st.positions EXCEPT ![coin] = Some(r.pos)],
                          events |-> [ stopped |-> st.events.stopped \cup r.stopped,
                                       new_highs |-> st.events.new_highs \cup r.new_highs,
                                       stop_line_raised |->
                                           st.events.stop_line_raised \cup r.stop_line_raised ] ],
                        prices, Tail(order), now)

\* the keys of a prices dictionary
KeysOf(prices) == {c \in Coins : prices[c] # None}

\* PositionTracker.update_prices; order is the order of the dictionary's keys
update_prices(prices, now) ==
    /\ mode \in TrackerModes
    /\ \E order \in ListOfSet(KeysOf(prices)) :
         LET res == UpdateLoop([positions |-> positions, events |-> NoEvents],
                               prices, order, now)
         IN  /\ positions' = res.positions
             /\ events' = res.events
             /\ new_highs_sent' = [c \in Coins |->
                    IF \E e \in res.events.new_highs : e.coin = c
                    THEN Sent(new_highs_sent[c]) ELSE new_highs_sent[c]]
    /\ UNCHANGED <<mode, stop_type, stop_pct, initial_stop, bt, rev, sig, mon>>

\* PositionTracker.remove_position
remove_position(coin) ==
    /\ mode \in TrackerModes
    /\ Tracked(positions, coin)
    /\ positions' = [positions EXCEPT ![coin] = None]
    /\ new_highs_sent' = [new_highs_sent EXCEPT ![coin] = 0]
    /\ events' = NoEvents
    /\ UNCHANGED <<mode, stop_type, stop_pct, initial_stop, bt, rev, sig, mon>>

AddPosition ==
    \E coin \in LiveCoins, price \in Prices, reasons \in ReasonArgs,
       amount \in Amounts, today \in Dates :
        add_position(coin, price, reasons, amount, today)

UpdatePrices == \E prices \in PriceMaps, now \in Times : update_prices(prices, now)

\* the dictionaries with prices for both assets, and the calls of the run
\* that tracks both: each asset is opened once with the default amount
PairPriceMaps == [Coins -> {None} \cup {Some(p) : p \in Prices}]
PairTimes == {1}

OpenPosition ==
    \E coin \in Coins, price \in Prices, today \in Dates :
        /\ mode = "pair"
        /\ ~Tracked(positions, coin)
        /\ add_position(coin, price, None, 1, today)

UpdatePricesPair ==
    /\ mode = "pair"
    /\ \E prices \in PairPriceMaps, now \in PairTimes : update_prices(prices, now)

RemovePosition == \E coin \in LiveCoins : remove_position(coin)

-----------------------------------------------------------------------------
(* backtest.py : EnhancedBacktester.calculate_returns, the walk over one BUY
   signal.  Percentages that the source rounds to two decimals are integers
   in hundredths of a percent. *)

\* the integer nearest to n/d (d > 0), a tie going to the even one: round()
RoundHalfEven(n, d) ==
    LET q == n \div d
        r == n - q * d
    IN  IF 2 * r < d THEN q
        ELSE IF 2 * r > d THEN q + 1
        ELSE IF q % 2 = 0 THEN q ELSE q + 1

\* round(x, 2) of the percentage x, in hundredths of a percent
Round2(x) == RoundHalfEven(x[1] * 100, x[2])

\* config['hold_days'], config['fee_rate'], config['slippage'] and
\* config['execution_delay'] (the last three in hundredths of a percent)
hold_days == {MaxHoldDays - 1, MaxHoldDays}
fee_rate == 10
slippage == 10
execution_delay == 0
\* the fee charged on one side of the trade only
round_trip_fee_mut == fee_rate

round_trip_fee == fee_rate * 2
total_cost == round_trip_fee + slippage + execution_delay

SetMax(S) == CHOOSE x \in S : \A y \in S : y <= x
max_hold_days == SetMax(hold_days)

\* the percentage (price - entry_price) / entry_price * 100
GrossPct(price, entry_price) ==
    Rat((price[1] - entry_price * price[2]) * 100, entry_price * price[2])

\* stop_prices keeps current_stop_price as it stands at the end of each
\* iteration of the loop over the holding days
BtIdle ==
    [ pc |-> "idle", entry_price |-> 0, day |-> 0, day_prices |-> <<>>,
      stop_prices |-> <<>>,
      max_price |-> 0, current_stop_price |-> IntRat(0), is_stopped |-> FALSE,
      returns |-> {}, max_drawdown |-> IntRat(0), exit_reason |-> "hold",
      exit_price |-> IntRat(0), exit_day |-> 0,
      final_return |-> None, final_return_gross |-> None ]

\* the first stop line set twice as far below the entry price
BtStart_wide(entry_price) ==
    [ BtIdle EXCEPT !.pc = "walk",
                    !.entry_price = entry_price,
                    !.max_price = entry_price,
                    !.current_stop_price = Rat(entry_price * (100 + 2 * stop_pct), 100) ]

\* lines 530-551: the result and the locals before the first day
BtStart(entry_price) ==
    [ BtIdle EXCEPT !.pc = "walk",
                    !.entry_price = entry_price,
                    !.max_price = entry_price,
                    !.current_stop_price =
                        IF stop_type = "trailing"
                        THEN Rat(entry_price * (100 + stop_pct), 100)
                        ELSE Rat(entry_price * (100 + stop_pct), 100) ]

\* lines 561-567: the peak and the stop line after a day with a price
BtPeak(b, day_price) == IF day_price > b.max_price THEN day_price ELSE b.max_price

BtStopLine(b, day_price) ==
    IF day_price > b.max_price /\ stop_type = "trailing"
    THEN RMax(b.current_stop_price, Rat(day_price * (100 + stop_pct), 100))
    ELSE b.current_stop_price

\* the horizon return measured from the peak instead of the entry price
BtHorizon_mut(b, day, day_price) ==
    LET gross_ret == GrossPct(IntRat(day_price), b.max_price)
    IN  [ day |-> day,
          net |-> RoundHalfEven(gross_ret[1] * 100 - total_cost * gross_ret[2], gross_ret[2]),
          gross |-> Round2(gross_ret) ]

\* lines 582-586: the entries f'{day}d' (net) and f'{day}d_gross' of
\* result['returns'], in hundredths of a percent
BtHorizon(b, day, day_price) ==
    LET gross_ret == GrossPct(IntRat(day_price), b.entry_price)
    IN  [ day |-> day,
          net |-> RoundHalfEven(gross_ret[1] * 100 - total_cost * gross_ret[2], gross_ret[2]),
          gross |-> Round2(gross_ret) ]

\* the exit filled at the day's price instead of the stop line
BtStop_mut(b, day_price, current_stop_price, day) ==
    [b EXCEPT !.is_stopped = TRUE,
              !.exit_reason = "stop_loss",
              !.exit_price = IntRat(day_price),
              !.exit_day = day]

\* lines 574-579: the stop is hit on this day
BtStop(b, day_price, current_stop_price, day) ==
    [b EXCEPT !.is_stopped = TRUE,
              !.exit_reason = "stop_loss",
              !.exit_price = current_stop_price,
              !.exit_day = day]

\* one iteration of the loop over the holding days, with the price that
\* _get_price_after_days returns for that day (None: no candle)
BtDay(b, day_price) ==
    LET day == b.day + 1
        b0 == [b EXCEPT !.day = day, !.day_prices = Append(b.day_prices, day_price),
                        !.stop_prices = Append(b.stop_prices, b.current_stop_price)]
    IN  IF day_price = None THEN b0
        ELSE
        LET price == Val(day_price)
            max_price == BtPeak(b, price)
            stop == BtStopLine(b, price)
            drawdown_from_max == Rat((price - max_price) * 100, max_price)
            b1 == [b0 EXCEPT !.max_price = max_price,
                             !.current_stop_price = stop,
                             !.stop_prices = Append(b.stop_prices, stop),
                             !.max_drawdown = RMin(b.max_drawdown, drawdown_from_max)]
        IN  IF RLeq(IntRat(price), stop)
            THEN BtStop(b1, price, stop, day)
            ELSE IF day \in hold_days
            THEN [b1 EXCEPT !.returns = b.returns \cup {BtHorizon(b, day, price)}]
            ELSE b1

\* lines 588-600: after the loop
BtFinish(b) ==
    LET final_price == b.day_prices[max_hold_days]
        b1 == IF ~b.is_stopped /\ final_price # None
              THEN [b EXCEPT !.exit_price = IntRat(Val(final_price)),
                             !.exit_day = max_hold_days]
              ELSE b
        gross_return == GrossPct(b1.exit_price, b.entry_price)
    IN  [b1 EXCEPT !.pc = "done",
                   !.final_return =
                       Some(RoundHalfEven(gross_return[1] * 100 - total_cost * gross_return[2],
                                          gross_return[2])),
                   !.final_return_gross = Some(Round2(gross_return))]

\* the signal prices and closes of the walks: the price grid of the tracker,
\* and the path 100, 130, 105 walked with a stop of -15 percent
ScenarioPrices == {100, 105, 130}
ScenarioEntries == {100}
BtStopPcts == StopPcts \cup {-15}
EntryPrices == Prices \cup ScenarioEntries
DayPrices(entry_price) == IF entry_price \in ScenarioEntries THEN ScenarioPrices ELSE Prices

BacktestStart ==
    /\ mode = "backtest"
    /\ bt.pc = "idle"
    /\ \E entry_price \in EntryPrices : bt' = BtStart(entry_price)
    /\ UNCHANGED <<mode, stop_type, stop_pct, initial_stop, positions, events, rev, sig, new_highs_sent, mon>>

BacktestDay ==
    /\ mode = "backtest"
    /\ bt.pc = "walk"
    /\ ~bt.is_stopped
    /\ bt.day < max_hold_days
    /\ \E day_price \in {None} \cup {Some(p) : p \in DayPrices(bt.entry_price)} :
            bt' = BtDay(bt, day_price)
    /\ UNCHANGED <<mode, stop_type, stop_pct, initial_stop, positions, events, rev, sig, new_highs_sent, mon>>

BacktestFinish ==
    /\ mode = "backtest"
    /\ bt.pc = "walk"
    /\ bt.is_stopped \/ bt.day = max_hold_days
    /\ bt' = BtFinish(bt)
    /\ UNCHANGED <<mode, stop_type, stop_pct, initial_stop, positions, events, rev, sig, new_highs_sent, mon>>

-----------------------------------------------------------------------------
(* The sentiment history store and SignalGenerator._check_reversal *)

\* A stored reading is [value, timestamp].  A timestamp is
\*   [kind |-> "num", t |-> epoch seconds],
\*   [kind |-> "str", wall |-> seconds of the written date and time since
\*        1970-01-01 00:00:00, tz |-> None or Some(UTC offset in seconds)],
\*        an ISO string such as '2024-01-01 10:00:00' or one with '+01:00', or
\*   [kind |-> "bad"], a string datetime.fromisoformat rejects.
NumTs(t) == [kind |-> "num", t |-> t]
StrTs(wall, tz) == [kind |-> "str", wall |-> wall, tz |-> tz]
BadTs == [kind |-> "bad"]

\* the epoch seconds of a supplied current_timestamp
SuppliedNow == {100}
\* 90 is older than 100 - 5, 95 is exactly 100 - 5; the string with the
\* +01:00 offset reads 3695 on the wall clock and is the epoch second 95
Timestamps == {NumTs(90), NumTs(95), StrTs(90, None), StrTs(3695, Some(3600)), BadTs}
DbTimestamps == {StrTs(90, None)}   \* SQLite CURRENT_TIMESTAMP: a naive UTC string
\* the sentiment readings: the panic band is < 30, the greed band is > 70
HistValues == {20, 25, 30, 70, 75, 80}
CurrentValues == {25, 28, 30, 70, 72, 75}
NowArgs == {None, Some(0)} \cup {Some(t) : t \in SuppliedNow}
Stores == {"DatabaseManager", "records"}

\* what db.get_fear_greed_history returns for the stored rows:
\* DatabaseManager returns the bare fear_greed_index values ([row[0] ...]);
\* a store as test_reversal_fix.py patches it in returns the records
get_fear_greed_history(store, rows) ==
    IF store = "DatabaseManager"
    THEN [i \in 1 .. Len(rows) |-> [bare |-> TRUE, value |-> rows[i].value]]
    ELSE [i \in 1 .. Len(rows) |-> [bare |-> FALSE, value |-> rows[i].value,
                                    timestamp |-> rows[i].timestamp]]

\* lines 221-229: the epoch seconds of item['timestamp'], None when the
\* attempt raises (a bare int has no ['timestamp']; fromisoformat rejects
\* the string); a naive datetime is taken as UTC
ItemTs(item) ==
    IF item.bare THEN None
    ELSE LET ts == item.timestamp
         IN  IF ts.kind = "num" THEN Some(ts.t)
             ELSE IF ts.kind = "str"
             THEN Some(ts.wall - (IF ts.tz = None THEN 0 ELSE Val(ts.tz)))
             ELSE None

\* lines 217-239: the values of the items older than current_timestamp - 5
RECURSIVE FilterHistory(_, _)
FilterHistory(items, current_timestamp) ==
    IF items = <<>> THEN <<>>
    ELSE LET item == Head(items)
             ts == ItemTs(item)
             rest == FilterHistory(Tail(items), current_timestamp)
         IN  IF ts # None /\ Val(ts) < current_timestamp - 5
             THEN <<item.value>> \o rest
             ELSE rest

\* Python truthiness of the current_timestamp argument
Truthy(current_timestamp) == current_timestamp # None /\ Val(current_timestamp) # 0

\* lines 214-242: [raised, history]; the list comprehension of the branch
\* without a timestamp raises on a bare int, which leaves history = []
BuildHistory(full_history, current_timestamp) ==
    IF Truthy(current_timestamp)
    THEN [raised |-> FALSE, history |-> FilterHistory(full_history, Val(current_timestamp))]
    ELSE IF \E i \in 1 .. Len(full_history) : full_history[i].bare
         THEN [raised |-> TRUE, history |-> <<>>]
         ELSE [raised |-> FALSE,
               history |-> [i \in 1 .. Len(full_history) |-> full_history[i].value]]

\* the panic branch accepting equal neighbours in the rising chain
PanicReversal_mut(history, current_fg, required_periods) ==
    LET n == Len(history)
        start_idx == n - required_periods + 1
    IN  IF history[n] >= 30 THEN FALSE
        ELSE IF n < required_periods THEN FALSE
        ELSE IF \E i \in start_idx .. n : history[i] >= 30 THEN FALSE
        ELSE IF \E i \in start_idx + 1 .. n : history[i] < history[i - 1] THEN FALSE
        ELSE IF current_fg <= history[n] THEN FALSE
        ELSE TRUE

\* lines 251-281
PanicReversal(history, current_fg, required_periods) ==
    LET n == Len(history)
        start_idx == n - required_periods + 1
    IN  IF history[n] >= 30 THEN FALSE
        ELSE IF n < required_periods THEN FALSE
        ELSE IF \E i \in start_idx .. n : history[i] >= 30 THEN FALSE
        ELSE IF \E i \in start_idx + 1 .. n : history[i] <= history[i - 1] THEN FALSE
        ELSE IF current_fg <= history[n] THEN FALSE
        ELSE TRUE

\* the greed branch accepting equal neighbours in the falling chain
GreedReversal_mut(history, current_fg, required_periods) ==
    LET n == Len(history)
        start_idx == n - required_periods + 1
    IN  IF history[n] <= 70 THEN FALSE
        ELSE IF n < required_periods THEN FALSE
        ELSE IF \E i \in start_idx .. n : history[i] <= 70 THEN FALSE
        ELSE IF \E i \in start_idx + 1 .. n : history[i] > history[i - 1] THEN FALSE
        ELSE IF current_fg >= history[n] THEN FALSE
        ELSE TRUE

\* lines 284-310
GreedReversal(history, current_fg, required_periods) ==
    LET n == Len(history)
        start_idx == n - required_periods + 1
    IN  IF history[n] <= 70 THEN FALSE
        ELSE IF n < required_periods THEN FALSE
        ELSE IF \E i \in start_idx .. n : history[i] <= 70 THEN FALSE
        ELSE IF \E i \in start_idx + 1 .. n : history[i] >= history[i - 1] THEN FALSE
        ELSE IF current_fg >= history[n] THEN FALSE
        ELSE TRUE

\* _check_reversal with the band limits 30 and 70 taken into the bands
check_reversal_mut(enabled, required_periods, full_history, current_fg, current_timestamp) ==
    IF ~enabled THEN [result |-> FALSE, history |-> <<>>]
    ELSE LET built == BuildHistory(full_history, current_timestamp)
             history == built.history
         IN  [ history |-> history,
               result |->
                  IF built.raised THEN FALSE
                  ELSE IF Len(history) < required_periods THEN FALSE
                  ELSE IF history = <<>> THEN FALSE
                  ELSE IF current_fg <= 30
                       THEN PanicReversal(history, current_fg, required_periods)
                  ELSE IF current_fg >= 70
                       THEN GreedReversal(history, current_fg, required_periods)
                  ELSE FALSE ]

\* SignalGenerator._check_reversal: [result, history]
check_reversal(enabled, required_periods, full_history, current_fg, current_timestamp) ==
    IF ~enabled THEN [result |-> FALSE, history |-> <<>>]
    ELSE LET built == BuildHistory(full_history, current_timestamp)
             history == built.history
         IN  [ history |-> history,
               result |->
                  IF built.raised THEN FALSE
                  ELSE IF Len(history) < required_periods THEN FALSE
                  ELSE IF history = <<>> THEN FALSE   \* history[-1]: IndexError
                  ELSE IF current_fg < 30
                       THEN PanicReversal(history, current_fg, required_periods)
                  ELSE IF current_fg > 70
                       THEN GreedReversal(history, current_fg, required_periods)
                  ELSE FALSE ]

RevIdle(store, enabled, consecutive_periods) ==
    [ pc |-> "store", store |-> store, enabled |-> enabled,
      consecutive_periods |-> consecutive_periods, rows |-> <<>>,
      current_fg |-> 0, current_timestamp |-> None,
      history |-> <<>>, result |-> FALSE ]

RevOff == [RevIdle("records", TRUE, 1) EXCEPT !.pc = "off"]

\* a reading is stored before the check is made
SaveReading ==
    /\ mode = "reversal"
    /\ rev.pc = "store"
    /\ Len(rev.rows) < MaxHist
    /\ \E value \in HistValues,
          timestamp \in (IF rev.store = "DatabaseManager" THEN DbTimestamps ELSE Timestamps) :
            rev' = [rev EXCEPT !.rows = Append(rev.rows, [value |-> value,
                                                           timestamp |-> timestamp])]
    /\ UNCHANGED <<mode, stop_type, stop_pct, initial_stop, positions, events, bt, sig, new_highs_sent, mon>>

CheckReversal ==
    /\ mode = "reversal"
    /\ rev.pc = "store"
    /\ \E current_fg \in CurrentValues, current_timestamp \in NowArgs :
        LET r == check_reversal(rev.enabled, rev.consecutive_periods,
                                get_fear_greed_history(rev.store, rev.rows),
                                current_fg, current_timestamp)
        IN  rev' = [rev EXCEPT !.pc = "checked",
                               !.current_fg = current_fg,
                               !.current_timestamp = current_timestamp,
                               !.history = r.history,
                               !.result = r.result]
    /\ UNCHANGED <<mode, stop_type, stop_pct, initial_stop, positions, events, bt, sig, new_highs_sent, mon>>

-----------------------------------------------------------------------------
(* SignalGenerator: generate_signals and what it calls *)

\* the strengths "弱", "中等", "强", "极强"
Strengths == <<"weak", "medium", "strong", "extreme">>
Rank(strength) == CHOOSE i \in 1 .. 4 : Strengths[i] = strength

\* SignalGenerator._upgrade_strength ("强" in strength and "极" not in strength)
upgrade_strength(strength) ==
    IF strength = "weak" THEN "medium"
    ELSE IF strength = "medium" THEN "strong"
    ELSE IF strength = "strong" THEN "extreme"
    ELSE strength

\* config['thresholds'] as test_reversal_fix.py sets them; percentiles are in
\* tenths of a percent and the long/short ratio in tenths
fear_buy == 25
greed_sell == 75
funding_panic_percentile == 150
funding_greed_percentile == 850
longshort_extreme == 8
min_coins == 2
MinSamples == 24

\* the history DatabaseManager.get_funding_history returns for a coin, around
\* a current rate of 0: lower values, then equal ones, then higher ones
Block(n, x) == [i \in 1 .. n |-> x]
FundingHistory(lower, equal, higher) == Block(lower, -1) \o Block(equal, 0) \o Block(higher, 1)
FundingHistories ==
    { FundingHistory(0, 0, MinSamples - 1),     \* too short
      FundingHistory(0, 1, MinSamples - 1),     \* percentile 0
      FundingHistory(2, 0, MinSamples - 2),     \* percentile 8.3: panic
      FundingHistory(MinSamples - 4, 0, 4),     \* percentile 83.3
      FundingHistory(MinSamples - 2, 0, 2),     \* percentile 91.7: greed
      FundingHistory(MinSamples, 0, 0) }        \* percentile 100
FundingRates == {None, Some(0)}
LongShorts == {None, Some(5), Some(10)}     \* longshort['ratio'] 0.5 and 1.0
SignalPrices == {100}
\* coin_data of one coin: a coin without a price has no other data read
CoinData ==
    {[price |-> None, funding_rate |-> None, longshort |-> None]} \cup
    [price : {Some(p) : p \in SignalPrices}, funding_rate : FundingRates,
     longshort : LongShorts]
FgValues == {20, 25, 75, 80}
\* the stored sentiment readings of the signal runs: a rising panic series
\* and a falling greed series, all older than the supplied now - 5
FgRows ==
    { << [value |-> 10, timestamp |-> StrTs(80, None)],
         [value |-> 15, timestamp |-> StrTs(90, None)] >>,
      << [value |-> 90, timestamp |-> StrTs(80, None)],
         [value |-> 85, timestamp |-> StrTs(90, None)] >> }
SigNowArgs == {None} \cup {Some(t) : t \in SuppliedNow}
CoinOrder == <<"BTC", "ETH">>   \* the order of data['coins']

\* the count taking the samples equal to the current rate as lower
RECURSIVE CountLower_mut(_, _)
CountLower_mut(history, current_rate) ==
    IF history = <<>> THEN 0
    ELSE (IF Head(history) <= current_rate THEN 1 ELSE 0)
         + CountLower_mut(Tail(history), current_rate)

RECURSIVE CountLower(_, _)
CountLower(history, current_rate) ==
    IF history = <<>> THEN 0
    ELSE (IF Head(history) < current_rate THEN 1 ELSE 0)
         + CountLower(Tail(history), current_rate)

\* the percentile asking for more than the minimum number of samples
calculate_funding_percentile_mut(history, current_rate) ==
    IF Len(history) <= MinSamples THEN None
    ELSE Some(RoundHalfEven(CountLower(history, current_rate) * 1000, Len(history)))

\* the percentile without the test of line 326 for the number of samples
calculate_funding_percentile_nomin(history, current_rate) ==
    Some(RoundHalfEven(CountLower(history, current_rate) * 1000, Len(history)))

\* SignalGenerator._calculate_funding_percentile, in tenths of a percent
calculate_funding_percentile(history, current_rate) ==
    IF Len(history) < MinSamples THEN None
    ELSE Some(RoundHalfEven(CountLower(history, current_rate) * 1000, Len(history)))

\* Python truthiness of an optional float
TruthyNum(o) == o # None /\ Val(o) # 0

\* lines 141 and 188: the condition under which a candidate is returned
EmissionGate_mut(strength, is_reversal) == is_reversal

\* the condition letting every candidate through
EmissionGate_all(strength, is_reversal) == TRUE

EmissionGate(strength, is_reversal) ==
    strength \in {"medium", "strong", "extreme"} \/ is_reversal

\* the long/short step raising whatever strength it finds
generate_buy_signal_anyls(cfg, coin, coin_data, fg_value, is_rev, history) ==
    LET is_reversal == cfg.use_reversal /\ cfg.reversal_enabled /\ is_rev
        funding_pct ==
            IF cfg.use_funding_percentile /\ coin_data.funding_rate # None
            THEN calculate_funding_percentile(history, Val(coin_data.funding_rate))
            ELSE None
        is_panic == TruthyNum(funding_pct) /\ Val(funding_pct) < funding_panic_percentile
        ls_extreme == /\ cfg.use_longshort
                      /\ coin_data.longshort # None
                      /\ Val(coin_data.longshort) < longshort_extreme
        s1 == IF is_reversal THEN "medium" ELSE "weak"
        s2 == IF is_panic THEN "strong" ELSE s1
        strength == IF ls_extreme THEN upgrade_strength(s2) ELSE s2
    IN  [ emitted |-> EmissionGate(strength, is_reversal),
          is_reversal |-> is_reversal,
          funding_pct |-> funding_pct,
          signal |->
            [ coin |-> coin, type |-> "BUY", strength |-> strength,
              reasons |-> <<[k |-> "fear_greed", v |-> fg_value]>>
                          \o (IF is_reversal THEN <<[k |-> "reversal", v |-> 0]>> ELSE <<>>)
                          \o (IF is_panic THEN <<[k |-> "funding_pct", v |-> Val(funding_pct)]>>
                              ELSE <<>>)
                          \o (IF ls_extreme THEN <<[k |-> "longshort", v |-> Val(coin_data.longshort)]>>
                              ELSE <<>>),
              tags |-> IF is_panic THEN <<"#bottom">>
                       ELSE IF is_reversal THEN <<"#reversal">> ELSE <<"#watch">> ] ]

\* SignalGenerator._generate_buy_signal: the locals at the return
generate_buy_signal(cfg, coin, coin_data, fg_value, is_rev, history) ==
    LET is_reversal == cfg.use_reversal /\ cfg.reversal_enabled /\ is_rev
        funding_pct ==
            IF cfg.use_funding_percentile /\ coin_data.funding_rate # None
            THEN calculate_funding_percentile(history, Val(coin_data.funding_rate))
            ELSE None
        is_panic == TruthyNum(funding_pct) /\ Val(funding_pct) < funding_panic_percentile
        ls_extreme == /\ cfg.use_longshort
                      /\ coin_data.longshort # None
                      /\ Val(coin_data.longshort) < longshort_extreme
        s1 == IF is_reversal THEN "medium" ELSE "weak"
        s2 == IF is_panic THEN "strong" ELSE s1
        strength == IF ls_extreme /\ s2 = "strong" THEN "extreme" ELSE s2
    IN  [ emitted |-> EmissionGate(strength, is_reversal),
          is_reversal |-> is_reversal,
          funding_pct |-> funding_pct,
          signal |->
            [ coin |-> coin, type |-> "BUY", strength |-> strength,
              reasons |-> <<[k |-> "fear_greed", v |-> fg_value]>>
                          \o (IF is_reversal THEN <<[k |-> "reversal", v |-> 0]>> ELSE <<>>)
                          \o (IF is_panic THEN <<[k |-> "funding_pct", v |-> Val(funding_pct)]>>
                              ELSE <<>>)
                          \o (IF ls_extreme THEN <<[k |-> "longshort", v |-> Val(coin_data.longshort)]>>
                              ELSE <<>>),
              tags |-> IF is_panic THEN <<"#bottom">>
                       ELSE IF is_reversal THEN <<"#reversal">> ELSE <<"#watch">> ] ]

\* SignalGenerator._generate_sell_signal: the locals at the return
generate_sell_signal(cfg, coin, coin_data, fg_value, is_rev, history) ==
    LET is_reversal == cfg.use_reversal /\ cfg.reversal_enabled /\ is_rev
        funding_pct ==
            IF cfg.use_funding_percentile /\ coin_data.funding_rate # None
            THEN calculate_funding_percentile(history, Val(coin_data.funding_rate))
            ELSE None
        is_greed == TruthyNum(funding_pct) /\ Val(funding_pct) > cfg.funding_greed_percentile
        s1 == IF is_reversal THEN "medium" ELSE "weak"
        strength == IF is_greed THEN "strong" ELSE s1
    IN  [ emitted |-> EmissionGate(strength, is_reversal),
          is_reversal |-> is_reversal,
          funding_pct |-> funding_pct,
          signal |->
            [ coin |-> coin, type |-> "SELL", strength |-> strength,
              reasons |-> <<[k |-> "fear_greed", v |-> fg_value]>>
                          \o (IF is_reversal THEN <<[k |-> "reversal", v |-> 0]>> ELSE <<>>)
                          \o (IF is_greed THEN <<[k |-> "funding_pct", v |-> Val(funding_pct)]>>
                              ELSE <<>>),
              tags |-> IF is_greed THEN <<"#distribution", "#overheated">>
                       ELSE IF is_reversal THEN <<"#reversal", "#distribution">>
                       ELSE <<"#watch">> ] ]

\* SignalGenerator._generate_coin_signal: None or Some(signal)
generate_coin_signal(cfg, coin, coin_data, fg_value, is_rev, history) ==
    IF fg_value < fear_buy
    THEN LET b == generate_buy_signal(cfg, coin, coin_data, fg_value, is_rev, history)
         IN  IF b.emitted THEN Some(b.signal) ELSE None
    ELSE IF fg_value > greed_sell
    THEN LET b == generate_sell_signal(cfg, coin, coin_data, fg_value, is_rev, history)
         IN  IF b.emitted THEN Some(b.signal) ELSE None
    ELSE None

\* the loop over the coins ending at the first coin without a price
RECURSIVE CoinSignals_mut(_, _, _, _, _, _)
CoinSignals_mut(cfg, coins, fg_value, is_rev, funding, i) ==
    IF i > Len(CoinOrder) THEN <<>>
    ELSE LET coin == CoinOrder[i]
         IN  IF coins[coin].price = None THEN <<>>
             ELSE LET signal == generate_coin_signal(cfg, coin, coins[coin], fg_value,
                                                     is_rev, funding[coin])
                      rest == CoinSignals_mut(cfg, coins, fg_value, is_rev, funding, i + 1)
                  IN  IF signal = None THEN rest ELSE signal \o rest

\* lines 42-60: the signals of the coins of data['coins'] from position i on
RECURSIVE CoinSignals(_, _, _, _, _, _)
CoinSignals(cfg, coins, fg_value, is_rev, funding, i) ==
    IF i > Len(CoinOrder) THEN <<>>
    ELSE LET coin == CoinOrder[i]
             rest == CoinSignals(cfg, coins, fg_value, is_rev, funding, i + 1)
         IN  IF coins[coin].price = None THEN rest
             ELSE LET signal == generate_coin_signal(cfg, coin, coins[coin], fg_value,
                                                     is_rev, funding[coin])
                  IN  IF signal = None THEN rest ELSE signal \o rest

\* the resonance pass asking for more than min_coins signals
Resonance_mut(cfg, signals) ==
    IF cfg.use_resonance /\ cfg.resonance_enabled /\ Len(signals) > min_coins
    THEN [i \in 1 .. Len(signals) |->
            [signals[i] EXCEPT !.tags = Append(@, "#resonance"),
                               !.strength = upgrade_strength(@),
                               !.reasons = Append(@, [k |-> "resonance", v |-> Len(signals)])]]
    ELSE signals

\* lines 62-72: the resonance pass
Resonance(cfg, signals) ==
    IF cfg.use_resonance /\ cfg.resonance_enabled /\ Len(signals) >= min_coins
    THEN [i \in 1 .. Len(signals) |->
            [signals[i] EXCEPT !.tags = Append(@, "#resonance"),
                               !.strength = upgrade_strength(@),
                               !.reasons = Append(@, [k |-> "resonance", v |-> Len(signals)])]]
    ELSE signals

\* lines 76-95: the locals at the return of the _generate_buy_signal or
\* _generate_sell_signal call made for a coin, None when neither is called
Candidate(cfg, coin, coin_data, fg_value, is_rev, history) ==
    IF fg_value < fear_buy
    THEN Some(generate_buy_signal(cfg, coin, coin_data, fg_value, is_rev, history))
    ELSE IF fg_value > greed_sell
    THEN Some(generate_sell_signal(cfg, coin, coin_data, fg_value, is_rev, history))
    ELSE None

\* SignalGenerator.generate_signals; fear_greed is data.get('fear_greed'):
\* None or Some(value).  signals is what it returns, pre is the list as it
\* stands at line 62 before the resonance pass, candidates are the locals of
\* the per-coin calls.
SignalRun(cfg, store, rows, funding, fear_greed, coins, current_ts) ==
    IF ~cfg.use_fear_greed \/ fear_greed = None
    THEN [ candidates |-> [c \in Coins |-> None], pre |-> <<>>, signals |-> <<>> ]
    ELSE LET fg_value == Val(fear_greed)
             is_rev == check_reversal(cfg.reversal_enabled, cfg.consecutive_periods,
                                      get_fear_greed_history(store, rows),
                                      fg_value, current_ts).result
             pre == CoinSignals(cfg, coins, fg_value, is_rev, funding, 1)
         IN  [ candidates |->
                 [c \in Coins |->
                    IF coins[c].price = None THEN None
                    ELSE Candidate(cfg, c, coins[c], fg_value, is_rev, funding[c])],
               pre |-> pre,
               signals |-> Resonance(cfg, pre) ]

generate_signals(cfg, store, rows, funding, fear_greed, coins, current_ts) ==
    SignalRun(cfg, store, rows, funding, fear_greed, coins, current_ts).signals


\* the switches of config['strategy'], config['reversal'] and config['resonance']
Flags == {"use_fear_greed", "use_reversal", "reversal_enabled", "use_funding_percentile",
          "use_longshort", "use_resonance", "resonance_enabled", "use_sell_signal"}
ConfigOf(off) ==
    [ use_fear_greed |-> "use_fear_greed" \notin off,
      use_reversal |-> "use_reversal" \notin off,
      reversal_enabled |-> "reversal_enabled" \notin off,
      consecutive_periods |-> 2,
      use_funding_percentile |-> "use_funding_percentile" \notin off,
      use_longshort |-> "use_longshort" \notin off,
      use_resonance |-> "use_resonance" \notin off,
      resonance_enabled |-> "resonance_enabled" \notin off,
      use_sell_signal |-> "use_sell_signal" \notin off,
      funding_greed_percentile |-> funding_greed_percentile ]
\* other values config['thresholds']['funding_greed_percentile'] is set to
GreedPercentiles == {800}
Configs ==
    {ConfigOf(off) : off \in {o \in SUBSET Flags : Cardinality(o) <= MaxFlagsOff}}
    \cup {[ConfigOf({}) EXCEPT !.funding_greed_percentile = t] : t \in GreedPercentiles}

NoFunding == FundingHistory(0, 0, MinSamples - 1)
\* a coin's data together with the funding history the store holds for it
CoinInputs ==
    {[data |-> d, funding |-> NoFunding] : d \in {c \in CoinData : c.funding_rate = None}}
    \cup [data : {c \in CoinData : c.funding_rate # None}, funding : FundingHistories]

SigOff ==
    [ pc |-> "off", cfg |-> ConfigOf({}), store |-> "records", rows |-> <<>>,
      funding |-> [c \in Coins |-> NoFunding], fear_greed |-> None,
      coins |-> [c \in Coins |-> [price |-> None, funding_rate |-> None, longshort |-> None]],
      current_ts |-> None, candidates |-> [c \in Coins |-> None],
      pre |-> <<>>, signals |-> <<>> ]

GenerateSignals ==
    /\ mode = "signal"
    /\ sig.pc = "ready"
    /\ \E fear_greed \in {None} \cup {Some(v) : v \in FgValues},
          inputs \in [Coins -> CoinInputs],
          current_ts \in SigNowArgs :
        LET coins == [c \in Coins |-> inputs[c].data]
            funding == [c \in Coins |-> inputs[c].funding]
            run == SignalRun(sig.cfg, sig.store, sig.rows, funding,
                             fear_greed, coins, current_ts)
        IN  sig' = [sig EXCEPT
                      !.pc = "done",
                      !.fear_greed = fear_greed,
                      !.coins = coins,
                      !.funding = funding,
                      !.current_ts = current_ts,
                      !.candidates = run.candidates,
                      !.pre = run.pre,
                      !.signals = run.signals]
    /\ UNCHANGED <<mode, stop_type, stop_pct, initial_stop, positions, events, bt, rev, new_highs_sent, mon>>

-----------------------------------------------------------------------------
(* _calculate_funding_percentile called on its own, over the histories the
   store can return.  In this run sig holds the history, the current rate
   and the value returned. *)

\* nine funding rates around a current rate of 5
ScenarioHistory == <<1, 2, 3, 4, 6, 7, 8, 9, 10>>
\* three days of them, and every shorter history the store held on the way
ScorerHistories ==
    LET days == ScenarioHistory \o ScenarioHistory \o ScenarioHistory
    IN  {SubSeq(days, 1, n) : n \in 1 .. Len(days)}
ScorerRates == {0, 5, 10, 11}

CalculateFundingPercentile ==
    /\ mode = "percentile"
    /\ sig.pc = "ready"
    /\ sig' = [sig EXCEPT !.pc = "scored",
                          !.percentile =
                              calculate_funding_percentile(sig.history, sig.current_rate)]
    /\ UNCHANGED <<mode, stop_type, stop_pct, initial_stop, positions, events, bt, rev, new_highs_sent, mon>>

-----------------------------------------------------------------------------

(* backtest.py : EnhancedBacktester._run_train_test_validation over
   self.results.  In this run bt holds self.results, the train_ratio and the
   report; returns and their averages are in hundredths of a percent. *)

\* the dates of fear_greed_data, ascending, and the final_return values
ValDates == 1 .. MaxDates
FinalReturns == {-300, 0, 100, 300}
\* config['train_test_split'] in percent
TrainRatios == {50, 70, 100}

\* simulate_signals appends the signals date by date and, within a date, coin
\* by coin in the order of config['coins']; calculate_returns keeps that order
NumSlots == MaxDates * Len(CoinOrder)
SlotDate(i) == ((i - 1) \div Len(CoinOrder)) + 1
SlotCoin(i) == CoinOrder[((i - 1) % Len(CoinOrder)) + 1]

RECURSIVE ResultsOf(_, _)
ResultsOf(f, i) ==
    IF i = 0 THEN <<>>
    ELSE IF f[i] = None THEN ResultsOf(f, i - 1)
    ELSE Append(ResultsOf(f, i - 1),
                [date |-> SlotDate(i), coin |-> SlotCoin(i), final_return |-> Val(f[i])])

\* the lists self.results can be after calculate_returns
ResultLists ==
    {ResultsOf(f, NumSlots) :
        f \in [1 .. NumSlots -> {None} \cup {Some(r) : r \in FinalReturns}]}

\* sorted(xs + [x], key=date) from the sorted xs: x goes after every element
\* whose date is not later than its own (the sort is stable)
RECURSIVE InsertByDate(_, _)
InsertByDate(xs, x) ==
    IF xs = <<>> THEN <<x>>
    ELSE IF xs[Len(xs)].date <= x.date THEN Append(xs, x)
    ELSE Append(InsertByDate(SubSeq(xs, 1, Len(xs) - 1), x), xs[Len(xs)])

\* sorted(self.results, key=lambda x: x['date'])
RECURSIVE SortByDate(_)
SortByDate(rs) ==
    IF rs = <<>> THEN <<>>
    ELSE InsertByDate(SortByDate(SubSeq(rs, 1, Len(rs) - 1)), rs[Len(rs)])

\* the split that leaves the result at the split point out of both parts
TrainTestSplit_mut(sorted_results, train_ratio) ==
    LET split_idx == (Len(sorted_results) * train_ratio) \div 100
    IN  [ train_results |-> SubSeq(sorted_results, 1, split_idx),
          test_results |-> SubSeq(sorted_results, split_idx + 2, Len(sorted_results)) ]

\* lines 794-796: split_idx = int(len(sorted_results) * train_ratio)
TrainTestSplit(sorted_results, train_ratio) ==
    LET split_idx == (Len(sorted_results) * train_ratio) \div 100
    IN  [ train_results |-> SubSeq(sorted_results, 1, split_idx),
          test_results |-> SubSeq(sorted_results, split_idx + 1, Len(sorted_results)) ]

RECURSIVE SumReturns(_)
SumReturns(rs) ==
    IF rs = <<>> THEN 0 ELSE rs[1].final_return + SumReturns(Tail(rs))

WinCount(rs) == Cardinality({i \in 1 .. Len(rs) : rs[i].final_return > 0})

\* _calculate_subset_stats: None is the empty dictionary returned for an
\* empty subset
calculate_subset_stats(results) ==
    IF results = <<>> THEN None
    ELSE Some([ count |-> Len(results),
                avg_return |-> Rat(SumReturns(results), Len(results)),
                total_return |-> SumReturns(results),
                win_rate |-> Rat(WinCount(results) * 100, Len(results)) ])

RSub(a, b) == Rat(a[1] * b[2] - b[1] * a[2], a[2] * b[2])

\* the classification with the two thresholds exchanged
OverfittingRisk_mut(degradation) ==
    IF RLt(IntRat(100), degradation) THEN "HIGH"
    ELSE IF RLt(IntRat(200), degradation) THEN "MEDIUM"
    ELSE "LOW"

\* line 861: 'HIGH' if degradation > 2.0 else ('MEDIUM' if degradation > 1.0
\* else 'LOW')
OverfittingRisk(degradation) ==
    IF RLt(IntRat(200), degradation) THEN "HIGH"
    ELSE IF RLt(IntRat(100), degradation) THEN "MEDIUM"
    ELSE "LOW"

\* _run_train_test_validation: None when self.results is empty, else the
\* entry report['validation'] together with the two parts of the split
run_train_test_validation(results, train_ratio) ==
    IF results = <<>> THEN None
    ELSE
    LET sorted_results == SortByDate(results)
        parts == TrainTestSplit(sorted_results, train_ratio)
        train_stats == calculate_subset_stats(parts.train_results)
        test_stats == calculate_subset_stats(parts.test_results)
        \* train_stats.get('avg_return', 0) and the like
        train_return == IF train_stats = None THEN IntRat(0) ELSE Val(train_stats).avg_return
        test_return == IF test_stats = None THEN IntRat(0) ELSE Val(test_stats).avg_return
        train_winrate == IF train_stats = None THEN IntRat(0) ELSE Val(train_stats).win_rate
        test_winrate == IF test_stats = None THEN IntRat(0) ELSE Val(test_stats).win_rate
        degradation == RSub(train_return, test_return)
        winrate_drop == RSub(train_winrate, test_winrate)
    IN  Some([ train_results |-> parts.train_results,
               test_results |-> parts.test_results,
               train_ratio |-> train_ratio,
               train |-> [count |-> Len(parts.train_results),
                          avg_return |-> RoundHalfEven(train_return[1], train_return[2])],
               test |-> [count |-> Len(parts.test_results),
                         avg_return |-> RoundHalfEven(test_return[1], test_return[2])],
               degradation |-> RoundHalfEven(degradation[1], degradation[2]),
               winrate_drop |-> RoundHalfEven(winrate_drop[1] * 10, winrate_drop[2]),
               overfitting_risk |-> OverfittingRisk(degradation) ])

ValIdle(results, train_ratio) ==
    [pc |-> "results", results |-> results, train_ratio |-> train_ratio,
     validation |-> None]

RunTrainTestValidation ==
    /\ mode = "validation"
    /\ bt.pc = "results"
    /\ bt' = [bt EXCEPT !.pc = "validated",
                        !.validation = run_train_test_validation(bt.results, bt.train_ratio)]
    /\ UNCHANGED <<mode, stop_type, stop_pct, initial_stop, positions, events, rev, sig, new_highs_sent, mon>>

-----------------------------------------------------------------------------

(* main.py : CryptoSentimentMonitor.analyze_and_signal, one cycle over one
   monitored asset.  mon holds the configuration the cycle reads and what
   the last cycle did. *)

\* config['position']['pyramiding']['min_profit_pct'], in percent
min_profit_pct == 5

\* the methods class PositionTracker defines
TrackerMethods ==
    {"add_position", "update_prices", "get_stop_line", "get_status", "remove_position"}

\* self.position_tracker.get_position(coin): the attribute lookup raises
\* AttributeError, PositionTracker defining no such method; the dictionary
\* is the one test_pyramiding.py has a patched-in get_position return
get_position(ps, coin) ==
    IF "get_position" \notin TrackerMethods THEN [raised |-> TRUE, pos |-> None]
    ELSE [ raised |-> FALSE,
           pos |-> IF Tracked(ps, coin)
                   THEN Some([coin |-> coin, return_pct |-> get_return_pct(Val(ps[coin]))])
                   ELSE None ]

\* the signals generate_signals returned in the cycle: at most one for the
\* monitored asset
MonitorSignals ==
    {<<>>} \cup {<<[coin |-> c, type |-> t, reasons |-> <<"fear">>]>> :
                    c \in LiveCoins, t \in {"BUY", "SELL"}}

\* lines 263-315: the body of the loop over the signals.  st holds the
\* tracker's positions, the signals passed to db.save_signal and the signals
\* whose handling ended in the except branch of line 316
HandleSignal(st, signal, price, today) ==
    LET saved(s) == [st EXCEPT !.saved = Append(st.saved, s)]
        opened(s) ==
            IF price = None THEN saved(s)
            ELSE [saved(s) EXCEPT !.positions[s.coin] =
                    IF Tracked(st.positions, s.coin)
                    THEN Some(add_amount(Val(st.positions[s.coin]), Val(price), 1))
                    ELSE Some(NewPosition(s.coin, Val(price), today, s.reasons, 1))]
    IN  IF signal.type # "BUY" THEN saved(signal)
        ELSE LET got == get_position(st.positions, signal.coin)
             IN  IF got.raised THEN [st EXCEPT !.failed = Append(st.failed, signal)]
                 ELSE IF got.pos = None THEN opened(signal)
                 ELSE IF ~mon.pyramiding_enabled THEN st
                 ELSE IF RLeq(IntRat(min_profit_pct), Val(got.pos).return_pct)
                 THEN saved([signal EXCEPT !.type = "ADD",
                                           !.reasons = Append(signal.reasons, "add")])
                 ELSE st

RECURSIVE HandleSignals(_, _, _, _)
HandleSignals(st, signals, price, today) ==
    IF signals = <<>> THEN st
    ELSE HandleSignals(HandleSignal(st, Head(signals), price, today),
                       Tail(signals), price, today)

\* the monitor entering the loop of run(): pc is the statement of the loop
\* body about to run ("analyze", "backtest", "sleep"), "error" inside the
\* handler of `except Exception`, "ended" once run() is left; exc is the
\* exception raised last, cycle is what the last cycle did
MonIdle(pyramiding_enabled, notifier) ==
    [ pc |-> "analyze", pyramiding_enabled |-> pyramiding_enabled, notifier |-> notifier,
      exc |-> None, cycle |-> None ]

\* the positions _load_positions can find in the positions file: none, or
\* the position of an earlier run at its last price
LoadedPositions ==
    {[c \in Coins |-> None]}
    \cup {[c \in Coins |-> IF c = coin
                           THEN Some(update_price(NewPosition(coin, entry, today, None, 1), last))
                           ELSE None] :
            coin \in LiveCoins, entry \in Prices, last \in Prices, today \in Dates}

\* lines 352-367 of _check_stop_loss: `for s in stopped` runs over the keys
\* of the dictionary update_prices returned, which is never empty; s is the
\* string 'stopped' and s['coin'] raises TypeError before the first send.
\* sent is the list of coins a stop notification went out for.
NotifyStops(returned, notifier) ==
    IF ~notifier THEN [sent |-> <<>>, raised |-> FALSE]
    ELSE LET keys == <<"stopped", "new_highs", "stop_line_raised">>
         IN  [sent |-> <<>>, raised |-> keys # <<>>]

\* analyze_and_signal: _check_stop_loss over the collected prices, then
\* generate_signals and the loop over its signals.  With a notifier and at
\* least one price, _check_stop_loss iterates over the keys of the dictionary
\* update_prices returned and s['coin'] raises TypeError out of the cycle
\* before any signal is generated.
AnalyzeAndSignal ==
    /\ mode = "monitor"
    /\ mon.pc = "analyze"
    /\ \E price \in {None} \cup {Some(p) : p \in Prices}, generated \in MonitorSignals,
          now \in Times, today \in Dates :
         LET prices == [c \in Coins |-> IF c \in LiveCoins THEN price ELSE None]
             start == [positions |-> positions, events |-> NoEvents]
             ticked == IF KeysOf(prices) = {} THEN start
                       ELSE UpdateLoop(start, prices, CoinOrder, now)
             notified == IF KeysOf(prices) = {} THEN [sent |-> <<>>, raised |-> FALSE]
                         ELSE NotifyStops(ticked.events, mon.notifier)
             raised == notified.raised
             signals == IF raised THEN <<>> ELSE generated
             done == HandleSignals([positions |-> ticked.positions,
                                    saved |-> <<>>, failed |-> <<>>],
                                   signals, price, today)
         IN  /\ positions' = done.positions
             /\ events' = ticked.events
             /\ new_highs_sent' = [c \in Coins |->
                    IF \E e \in ticked.events.new_highs : e.coin = c
                    THEN Sent(new_highs_sent[c]) ELSE new_highs_sent[c]]
             /\ mon' = [mon EXCEPT !.pc = IF raised THEN "error" ELSE "backtest",
                                   !.exc = IF raised THEN Some("TypeError") ELSE None,
                                   !.cycle =
                            Some([ price |-> price, signals |-> signals,
                                   stop_notices |-> notified.sent,
                                   saved |-> done.saved, failed |-> done.failed,
                                   raised |-> raised ])]
    /\ UNCHANGED <<mode, stop_type, stop_pct, initial_stop, bt, rev, sig>>

(* main.py : CryptoSentimentMonitor.run, the loop around the cycle *)

\* line 449: run_backtest returns; it catches what its queries and the
\* backtest of a signal raise
RunBacktest ==
    /\ mode = "monitor"
    /\ mon.pc = "backtest"
    /\ mon' = [mon EXCEPT !.pc = "sleep"]
    /\ UNCHANGED <<mode, stop_type, stop_pct, initial_stop, positions, events, bt, rev, sig, new_highs_sent>>

\* lines 452-453: time.sleep(interval) returns and the loop starts over
Sleep ==
    /\ mode = "monitor"
    /\ mon.pc = "sleep"
    /\ mon' = [mon EXCEPT !.pc = "analyze"]
    /\ UNCHANGED <<mode, stop_type, stop_pct, initial_stop, positions, events, bt, rev, sig, new_highs_sent>>

\* the handler leaving the loop after the error
ErrorWait_break ==
    /\ mode = "monitor"
    /\ mon.pc = "error"
    /\ mon' = [mon EXCEPT !.pc = "ended"]
    /\ UNCHANGED <<mode, stop_type, stop_pct, initial_stop, positions, events, bt, rev, sig, new_highs_sent>>

\* lines 463-470: the handler of `except Exception` logs, notifies (send
\* catches what it raises), sleeps 300 seconds and falls through to the
\* next iteration
ErrorWait ==
    /\ mode = "monitor"
    /\ mon.pc = "error"
    /\ mon' = [mon EXCEPT !.pc = "analyze"]
    /\ UNCHANGED <<mode, stop_type, stop_pct, initial_stop, positions, events, bt, rev, sig, new_highs_sent>>

\* a keyboard interrupt: raised in the try body it reaches the handler of
\* lines 455-461, which breaks; raised inside the other handler it leaves
\* run() uncaught
KeyboardInterrupt ==
    /\ mode = "monitor"
    /\ mon.pc \in {"analyze", "backtest", "sleep", "error"}
    /\ mon' = [mon EXCEPT !.pc = "ended", !.exc = Some("KeyboardInterrupt")]
    /\ UNCHANGED <<mode, stop_type, stop_pct, initial_stop, positions, events, bt, rev, sig, new_highs_sent>>

-----------------------------------------------------------------------------

(* Specifications *)

\* PositionTracker.__init__ without a positions file, and no walk begun
InitTracker ==
    /\ positions = [c \in Coins |-> None]
    /\ events = NoEvents
    /\ new_highs_sent = NoneSent
    /\ bt = BtIdle
    /\ mon = MonOff

InitConfig ==
    /\ stop_type \in StopTypes
    /\ stop_pct \in StopPcts
    /\ initial_stop \in InitialStops
    /\ InitTracker

\* the risk configuration of the runs that never read it
InitNoRisk ==
    /\ stop_type = "trailing"
    /\ stop_pct \in StopPcts
    /\ initial_stop \in InitialStops
    /\ InitTracker

\* the live tracker (no positions file) or one backtest walk
\* EnhancedBacktester.calculate_returns reads its own risk configuration
InitBacktest ==
    /\ stop_type \in StopTypes
    /\ stop_pct \in BtStopPcts
    /\ initial_stop \in InitialStops
    /\ InitTracker

Init ==
    /\ \/ mode = "live" /\ InitConfig
       \/ mode = "backtest" /\ InitBacktest
    /\ rev = RevOff
    /\ sig = SigOff

Next ==
    \/ AddPosition
    \/ UpdatePrices
    \/ RemovePosition
    \/ BacktestStart
    \/ BacktestDay
    \/ BacktestFinish

Spec == Init /\ [][Next]_vars

\* _check_reversal over a store of readings
InitReversal ==
    /\ mode = "reversal"
    /\ InitNoRisk
    /\ \E store \in Stores, enabled \in BOOLEAN, k \in 1 .. MaxK :
            rev = RevIdle(store, enabled, k)
    /\ sig = SigOff

NextReversal ==
    \/ SaveReading
    \/ CheckReversal

SpecReversal == InitReversal /\ [][NextReversal]_vars

\* generate_signals over one snapshot
InitSignal ==
    /\ mode = "signal"
    /\ InitNoRisk
    /\ rev = RevOff
    /\ \E cfg \in Configs, store \in Stores, rows \in FgRows :
            sig = [SigOff EXCEPT !.pc = "ready", !.cfg = cfg, !.store = store, !.rows = rows]

NextSignal == GenerateSignals

SpecSignal == InitSignal /\ [][NextSignal]_vars

\* _run_train_test_validation over the results of one backtest
InitValidation ==
    /\ mode = "validation"
    /\ stop_type = "trailing"
    /\ stop_pct \in StopPcts
    /\ initial_stop \in InitialStops
    /\ positions = [c \in Coins |-> None]
    /\ events = NoEvents
    /\ new_highs_sent = NoneSent
    /\ mon = MonOff
    /\ \E results \in ResultLists, train_ratio \in TrainRatios :
            bt = ValIdle(results, train_ratio)
    /\ rev = RevOff
    /\ sig = SigOff

\* the tracker of two assets, each opened once and then ticked together
InitPair ==
    /\ mode = "pair"
    /\ InitConfig
    /\ rev = RevOff
    /\ sig = SigOff

NextPair ==
    \/ OpenPosition
    \/ UpdatePricesPair

SpecPair == InitPair /\ [][NextPair]_vars

\* the monitor after construction: the positions of the positions file, the
\* pyramiding switch and whether a Telegram notifier is configured
InitMonitor ==
    /\ mode = "monitor"
    /\ stop_type \in StopTypes
    /\ stop_pct \in StopPcts
    /\ initial_stop \in InitialStops
    /\ positions \in LoadedPositions
    /\ events = NoEvents
    /\ new_highs_sent = NoneSent
    /\ bt = BtIdle
    /\ rev = RevOff
    /\ sig = SigOff
    /\ \E pyramiding_enabled \in BOOLEAN, notifier \in BOOLEAN :
            mon = MonIdle(pyramiding_enabled, notifier)

NextMonitor ==
    \/ AnalyzeAndSignal
    \/ RunBacktest
    \/ Sleep
    \/ ErrorWait
    \/ KeyboardInterrupt

SpecMonitor == InitMonitor /\ [][NextMonitor]_vars

\* time.sleep(300) of the error handler returns
SpecMonitorFair == SpecMonitor /\ WF_vars(ErrorWait)

\* _calculate_funding_percentile over one history and one current rate
InitScorer ==
    /\ mode = "percentile"
    /\ InitNoRisk
    /\ rev = RevOff
    /\ \E history \in ScorerHistories, current_rate \in ScorerRates :
            sig = [pc |-> "ready", history |-> history,
                   current_rate |-> current_rate, percentile |-> None]

NextScorer == CalculateFundingPercentile

SpecScorer == InitScorer /\ [][NextScorer]_vars

NextValidation == RunTrainTestValidation

SpecValidation == InitValidation /\ [][NextValidation]_vars

-----------------------------------------------------------------------------
(* Properties of the position tracker and of the backtest walk (Spec) *)

PosOf(ps, c) == Val(ps[c])

\* C1: under the trailing policy the stop line get_stop_line returns for a
\* position never decreases over a price tick or a pyramiding add, and the
\* current_stop_price of a backtest walk never decreases from day to day.
C1_TrailingStopMonotone ==
    [][ stop_type = "trailing" =>
          /\ \A c \in Coins :
                (Tracked(positions, c) /\ Tracked(positions', c)) =>
                    RLeq(Val(StopLineOf(positions, c)), Val(StopLineOf(positions', c)))
          /\ (bt.pc = "walk" /\ bt'.pc # "idle") =>
                    RLeq(bt.current_stop_price, bt'.current_stop_price) ]_vars

\* a trailing position that was added to, has a peak above its entry price
\* and has fallen back below the peak
C1_Witness ==
    /\ stop_type = "trailing"
    /\ \E c \in Coins :
          /\ Tracked(positions, c)
          /\ PosOf(positions, c).amount > 1
          /\ RLt(PosOf(positions, c).entry_price, IntRat(PosOf(positions, c).max_price))
          /\ PosOf(positions, c).current_price < PosOf(positions, c).max_price

\* C2: a stopped position stays stopped with the same stop_price and
\* stop_triggered_at over every later update_prices and add_position call,
\* and update_prices emits no further stopped event for it.
C2_StoppedIsTerminal ==
    [][ \A c \in Coins :
          ( /\ Tracked(positions, c)
            /\ PosOf(positions, c).status = "stopped"
            /\ Tracked(positions', c) ) =>
              /\ PosOf(positions', c).status = "stopped"
              /\ PosOf(positions', c).stop_price = PosOf(positions, c).stop_price
              /\ PosOf(positions', c).stop_triggered_at = PosOf(positions, c).stop_triggered_at
              /\ UpdatePrices => \A e \in events'.stopped : e.coin # c ]_vars

\* a stopped position that has had a later tick below its stop price
C2_Witness ==
    \E c \in Coins :
        /\ Tracked(positions, c)
        /\ PosOf(positions, c).status = "stopped"
        /\ Some(PosOf(positions, c).current_price) # PosOf(positions, c).stop_price
        /\ PosOf(positions, c).current_price
             < Val(PosOf(positions, c).stop_price)

\* what every update_prices step leaves alone: the coins that are tracked and
\* the amount and the entry price of their positions (implied by IsTick, and
\* spares its evaluation over the steps of add_position and remove_position)
TickShape ==
    \A c \in Coins :
        /\ Tracked(positions', c) = Tracked(positions, c)
        /\ Tracked(positions, c) =>
              /\ PosOf(positions', c).amount = PosOf(positions, c).amount
              /\ PosOf(positions', c).entry_price = PosOf(positions, c).entry_price

\* the step is the call update_prices(prices, now); the first conjunct is
\* implied by the second and only spares its evaluation for the other maps
IsTick(prices, now) ==
    /\ \A c \in Ticked(prices) :
            /\ Tracked(positions', c)
            /\ PosOf(positions', c).current_price = Val(prices[c])
    /\ update_prices(prices, now)

\* C3: a tick of update_prices moves an open position to stopped exactly
\* when the tick price is <= the stop line get_stop_line returns after the
\* tick's peak update, and then stop_price is the tick price.
C3_StopIffAtOrBelowLine ==
    [][ TickShape =>
        \A prices \in PriceMaps, now \in Times :
          IsTick(prices, now) =>
            \A c \in Ticked(prices) :
               PosOf(positions, c).status = "open" =>
                 /\ (PosOf(positions', c).status = "stopped")
                      <=> RLeq(IntRat(Val(prices[c])), Val(StopLineOf(positions', c)))
                 /\ PosOf(positions', c).status = "stopped" =>
                      PosOf(positions', c).stop_price = prices[c] ]_vars

\* a position stopped by a tick exactly on its stop line
C3_Witness ==
    \E c \in Coins :
        /\ Tracked(positions, c)
        /\ PosOf(positions, c).status = "stopped"
        /\ PosOf(positions, c).stop_price = Some(PosOf(positions, c).current_price)
        /\ REq(IntRat(PosOf(positions, c).current_price), Val(StopLineOf(positions, c)))

\* C4: every tracked position has max_price >= entry_price.
C4_MaxAtLeastEntry ==
    \A c \in Coins :
        Tracked(positions, c) =>
            RLeq(PosOf(positions, c).entry_price, IntRat(PosOf(positions, c).max_price))

-----------------------------------------------------------------------------
(* Properties of _check_reversal (SpecReversal).  rev.history is the list
   lines 214-242 build and the checks of lines 246-310 read. *)

LastK(history, k) == {i \in 1 .. Len(history) : i > Len(history) - k}

\* the panic reversal as the specification words it
PanicConditions(history, current, k) ==
    /\ Len(history) >= k
    /\ \A i \in LastK(history, k) : history[i] < 30
    /\ \A i \in LastK(history, k) : (i - 1) \in LastK(history, k) => history[i - 1] < history[i]
    /\ current > history[Len(history)]

\* the greed reversal as the specification words it
GreedConditions(history, current, k) ==
    /\ Len(history) >= k
    /\ \A i \in LastK(history, k) : history[i] > 70
    /\ \A i \in LastK(history, k) : (i - 1) \in LastK(history, k) => history[i - 1] > history[i]
    /\ current < history[Len(history)]

RevChecked == mode = "reversal" /\ rev.pc = "checked" /\ rev.enabled

\* C5: for current < 30 the enabled check returns true exactly when the
\* history has at least K values, the last K are all < 30 and strictly
\* increasing, and current > history[-1].
C5_PanicReversalIff ==
    (RevChecked /\ rev.current_fg < 30) =>
        (rev.result <=> PanicConditions(rev.history, rev.current_fg, rev.consecutive_periods))

\* a confirmed panic reversal over two periods, with an older reading that
\* was dropped or lies outside the tail
C5_Witness ==
    /\ RevChecked
    /\ rev.current_fg < 30
    /\ rev.consecutive_periods = 2
    /\ Len(rev.history) >= 2
    /\ rev.result

\* C6: for current > 70 the enabled check returns true exactly when the
\* history has at least K values, the last K are all > 70 and strictly
\* decreasing, and current < history[-1].
C6_GreedReversalIff ==
    (RevChecked /\ rev.current_fg > 70) =>
        (rev.result <=> GreedConditions(rev.history, rev.current_fg, rev.consecutive_periods))

\* a confirmed greed reversal over two periods
C6_Witness ==
    /\ RevChecked
    /\ rev.current_fg > 70
    /\ rev.consecutive_periods = 2
    /\ Len(rev.history) >= 2
    /\ rev.result

\* C7: the check returns false for every history when 30 <= current <= 70,
\* and for every input when reversal.enabled is false.
C7_NeutralOrDisabledIsFalse ==
    (mode = "reversal" /\ rev.pc = "checked") =>
        ( ( (30 <= rev.current_fg /\ rev.current_fg <= 70) \/ ~rev.enabled ) => ~rev.result )

\* a check at the band limit 30 over a rising panic series that a current
\* value inside the band would have confirmed
C7_Witness ==
    /\ RevChecked
    /\ rev.current_fg = 30
    /\ rev.history = <<20, 25>>
    /\ ~rev.result

\* the epoch seconds a stored timestamp denotes, None when it has no reading
StoredEpoch(timestamp) ==
    IF timestamp.kind = "num" THEN Some(timestamp.t)
    ELSE IF timestamp.kind = "str"
    THEN Some(timestamp.wall - (IF timestamp.tz = None THEN 0 ELSE Val(timestamp.tz)))
    ELSE None

RECURSIVE OlderValues(_, _)
OlderValues(rows, now) ==
    IF rows = <<>> THEN <<>>
    ELSE LET e == StoredEpoch(Head(rows).timestamp)
         IN  (IF e # None /\ Val(e) < now - 5 THEN <<Head(rows).value>> ELSE <<>>)
             \o OlderValues(Tail(rows), now)

\* C8: with a now-timestamp supplied, the history the check uses is exactly
\* the values of the stored points whose timestamp is more than 5 seconds
\* before now, in stored order; unparseable points are dropped.
C8_HistoryIsOlderStoredPoints ==
    (RevChecked /\ rev.current_timestamp # None) =>
        rev.history = OlderValues(rev.rows, Val(rev.current_timestamp))

-----------------------------------------------------------------------------
\* C31: the check over DatabaseManager gives the result it gives over the
\* same stored readings supplied as ordered {timestamp, value} records; in
\* particular it returns true when the stored readings older than now minus
\* 5 seconds satisfy the panic-reversal conditions.
C31_StoreRefinement ==
    (RevChecked /\ rev.store = "DatabaseManager") =>
        /\ rev.result =
             check_reversal(rev.enabled, rev.consecutive_periods,
                            get_fear_greed_history("records", rev.rows),
                            rev.current_fg, rev.current_timestamp).result
        /\ ( /\ rev.enabled
             /\ rev.current_timestamp # None
             /\ rev.current_fg < 30
             /\ PanicConditions(OlderValues(rev.rows, Val(rev.current_timestamp)),
                                rev.current_fg, rev.consecutive_periods) )
           => rev.result

-----------------------------------------------------------------------------

(* Properties of generate_signals (SpecSignal) *)

SigDone == mode = "signal" /\ sig.pc = "done"
SignalsOf(c) == {i \in 1 .. Len(sig.signals) : sig.signals[i].coin = c}
\* generate_signals reached the loop over the coins and c has a price
Priced(c) ==
    /\ SigDone
    /\ sig.cfg.use_fear_greed
    /\ sig.fear_greed # None
    /\ sig.coins[c].price # None

\* C9: a priced asset's signal is BUY when sentiment < fear_buy, SELL when
\* sentiment > greed_sell and sell signals are enabled, and there is no
\* signal otherwise; no SELL is produced while sell signals are disabled.
C9_CandidateType ==
    \A c \in Coins :
        Priced(c) =>
            LET fg == Val(sig.fear_greed)
            IN  /\ fg < fear_buy => \A i \in SignalsOf(c) : sig.signals[i].type = "BUY"
                /\ (fg > greed_sell /\ sig.cfg.use_sell_signal) =>
                        \A i \in SignalsOf(c) : sig.signals[i].type = "SELL"
                /\ ~(fg < fear_buy) /\ ~(fg > greed_sell /\ sig.cfg.use_sell_signal) =>
                        SignalsOf(c) = {}

\* C10: a BUY candidate with percentile scoring enabled, at least 24 funding
\* samples and a funding percentile below funding_panic_percentile (0
\* included) is emitted with strength strong or higher.
C10_PanicPercentileIsStrong ==
    \A c \in Coins :
        ( /\ Priced(c)
          /\ Val(sig.fear_greed) < fear_buy
          /\ sig.cfg.use_funding_percentile
          /\ sig.coins[c].funding_rate # None
          /\ Len(sig.funding[c]) >= MinSamples
          /\ Val(calculate_funding_percentile(sig.funding[c], Val(sig.coins[c].funding_rate)))
                < funding_panic_percentile ) =>
            \E i \in SignalsOf(c) : Rank(sig.signals[i].strength) >= 3

\* the locals of the call made for c, when one was made
HasCandidate(c) == SigDone /\ sig.candidates[c] # None
CandidateOf(c) == Val(sig.candidates[c])
\* c has a signal in the list as it stands before the resonance pass
EmittedPre(c) == \E i \in 1 .. Len(sig.pre) : sig.pre[i].coin = c

\* C11: a per-asset candidate is in the list before the resonance pass if
\* and only if its final strength is medium or higher or a reversal was
\* confirmed; a weak candidate without a reversal yields no signal.
C11_EmissionGate ==
    \A c \in Coins :
        HasCandidate(c) =>
            ( EmittedPre(c) <=>
                ( Rank(CandidateOf(c).signal.strength) >= 2 \/ CandidateOf(c).is_reversal ) )

\* one candidate emitted as strong without a reversal, another left weak
C11_Witness ==
    \E c, d \in Coins :
        /\ HasCandidate(c) /\ HasCandidate(d)
        /\ CandidateOf(c).signal.strength = "strong" /\ ~CandidateOf(c).is_reversal
        /\ EmittedPre(c)
        /\ CandidateOf(d).signal.strength = "weak" /\ ~EmittedPre(d)

\* C12: a SELL candidate is emitted only if a greed reversal was confirmed
\* or its funding percentile is above 85, whatever funding_greed_percentile
\* the configuration sets.
C12_SellNeedsReversalOrGate ==
    \A c \in Coins :
        ( HasCandidate(c) /\ CandidateOf(c).signal.type = "SELL" /\ EmittedPre(c) ) =>
            \/ CandidateOf(c).is_reversal
            \/ /\ CandidateOf(c).funding_pct # None
               /\ Val(CandidateOf(c).funding_pct) > 850

\* both switches of the resonance pass are on
ResonanceOn == sig.cfg.use_resonance /\ sig.cfg.resonance_enabled
\* one level up, extreme staying extreme
NextLevel(strength) == Strengths[IF Rank(strength) < 4 THEN Rank(strength) + 1 ELSE 4]

\* C13: with resonance enabled and at least min_coins signals emitted in the
\* batch, every emitted signal is raised by exactly one level (extreme stays
\* extreme) and gains exactly one resonance tag and one appended reason
\* carrying the count; otherwise no signal of the batch is changed.
C13_ResonancePass ==
    SigDone =>
        IF ResonanceOn /\ Len(sig.pre) >= min_coins
        THEN /\ Len(sig.signals) = Len(sig.pre)
             /\ \A i \in 1 .. Len(sig.pre) :
                   /\ sig.signals[i].coin = sig.pre[i].coin
                   /\ sig.signals[i].type = sig.pre[i].type
                   /\ sig.signals[i].strength = NextLevel(sig.pre[i].strength)
                   /\ sig.signals[i].tags = Append(sig.pre[i].tags, "#resonance")
                   /\ sig.signals[i].reasons =
                        Append(sig.pre[i].reasons, [k |-> "resonance", v |-> Len(sig.pre)])
        ELSE sig.signals = sig.pre

\* a batch in which an extreme signal stays extreme and a medium one is raised
C13_Witness ==
    /\ SigDone /\ ResonanceOn /\ Len(sig.pre) >= min_coins
    /\ \E i, j \in 1 .. Len(sig.pre) :
          /\ sig.pre[i].strength = "extreme" /\ sig.signals[i].strength = "extreme"
          /\ sig.pre[j].strength = "medium" /\ sig.signals[j].strength = "strong"

\* the signals of coin c in a list (none or one)
DecisionOf(signals, c) == {signals[i] : i \in {j \in 1 .. Len(signals) : signals[j].coin = c}}
\* the same call with the data of coin d replaced by a coin without a price
RunWithout(d) ==
    SignalRun(sig.cfg, sig.store, sig.rows, sig.funding, sig.fear_greed,
              [sig.coins EXCEPT ![d] = [price |-> None, funding_rate |-> None,
                                        longshort |-> None]],
              sig.current_ts)

\* C14: the decision for an asset before the resonance pass (emitted or not,
\* type, strength, reasons, tags) is the one the same call makes when the
\* other asset has no price, funding rate or long/short data at all, so it
\* depends on the asset's own data and the shared sentiment only; an asset
\* without a price does not block the others; and with the same number of
\* emitted signals the returned signal of the asset is the same too.
C14_DecisionsIndependent ==
    \A c \in Coins : \A d \in Coins \ {c} :
        SigDone =>
            LET run == RunWithout(d)
            IN  /\ DecisionOf(run.pre, c) = DecisionOf(sig.pre, c)
                /\ Len(run.pre) = Len(sig.pre) =>
                      DecisionOf(run.signals, c) = DecisionOf(sig.signals, c)

\* the first coin of the batch has no price and the second one is emitted
C14_Witness ==
    /\ SigDone
    /\ sig.coins[CoinOrder[1]].price = None
    /\ DecisionOf(sig.pre, CoinOrder[2]) # {}
    /\ Len(sig.signals) = 1

\* the call made for c computed a funding percentile
Scored(c) ==
    /\ HasCandidate(c)
    /\ sig.cfg.use_funding_percentile
    /\ sig.coins[c].funding_rate # None

\* C15: _calculate_funding_percentile returns None whenever the history has
\* fewer than 24 samples and a score whenever it has at least 24; a None
\* score never raises the strength of the candidate, which then is medium
\* with a confirmed reversal and weak without one.
C15_PercentileNeedsMinSamples ==
    \A c \in Coins :
        /\ Scored(c) =>
              ( CandidateOf(c).funding_pct = None <=> Len(sig.funding[c]) < 24 )
        /\ (HasCandidate(c) /\ CandidateOf(c).funding_pct = None) =>
              CandidateOf(c).signal.strength =
                  (IF CandidateOf(c).is_reversal THEN "medium" ELSE "weak")

\* one coin scored on exactly 24 samples, another refused on 23
C15_Witness ==
    \E c, d \in Coins :
        /\ Scored(c) /\ Len(sig.funding[c]) = 24 /\ CandidateOf(c).funding_pct # None
        /\ Scored(d) /\ Len(sig.funding[d]) = 23 /\ CandidateOf(d).funding_pct = None

\* the samples of the history of c below, and not above, its current rate
LowerSamples(c) ==
    {i \in 1 .. Len(sig.funding[c]) : sig.funding[c][i] < Val(sig.coins[c].funding_rate)}
NotAboveSamples(c) ==
    {i \in 1 .. Len(sig.funding[c]) : sig.funding[c][i] <= Val(sig.coins[c].funding_rate)}
HasScore(c) == Scored(c) /\ CandidateOf(c).funding_pct # None

\* C16 as stated: with N >= 24 samples the percentile equals
\* 100 * |{x in history : x < current}| / N, lies in [0, 100], is 0 when
\* current is not above any sample and is 100 only when current is above
\* every sample.  (Percentiles are in tenths of a percent.)
C16_PercentileExact ==
    \A c \in Coins :
        HasScore(c) =>
            LET pct == Val(CandidateOf(c).funding_pct)
                N == Len(sig.funding[c])
            IN  /\ pct * N = 1000 * Cardinality(LowerSamples(c))
                /\ 0 <= pct /\ pct <= 1000
                /\ LowerSamples(c) = {} => pct = 0
                /\ pct = 1000 => Cardinality(LowerSamples(c)) = N

\* C16 amended: the percentile is 100 * |{x < current}| / N rounded to one
\* decimal (within 0.05 of it), ties excluded; it lies in [0, 100], is 0
\* when current is not above any sample, is 100 when current is above every
\* sample and, with fewer than 2000 samples, only then.
C16_PercentileRounded ==
    \A c \in Coins :
        HasScore(c) =>
            LET pct == Val(CandidateOf(c).funding_pct)
                N == Len(sig.funding[c])
                lower == Cardinality(LowerSamples(c))
            IN  /\ 2 * Abs(pct * N - 1000 * lower) <= N
                /\ 0 <= pct /\ pct <= 1000
                /\ lower = 0 => pct = 0
                /\ lower = N => pct = 1000
                /\ (pct = 1000 /\ N < 2000) => lower = N

\* a score over a history that holds a sample equal to the current rate
C16_Witness ==
    \E c \in Coins :
        /\ HasScore(c)
        /\ NotAboveSamples(c) # LowerSamples(c)
        /\ Val(CandidateOf(c).funding_pct) = 0

-----------------------------------------------------------------------------
(* Properties of the backtest walk (Spec) *)

BtWalked == mode = "backtest" /\ bt.pc \in {"walk", "done"}
\* the days walked whose close is at or below the stop line held that day
StopDays ==
    {k \in 1 .. bt.day : /\ bt.day_prices[k] # None
                         /\ RLeq(IntRat(Val(bt.day_prices[k])), bt.stop_prices[k])}
SetMin(S) == CHOOSE x \in S : \A y \in S : x <= y
\* the walk of entry 100 with a trailing stop of -15 percent along 100, 130, 105
ScenarioPath == <<Some(100), Some(130), Some(105)>>
OnScenario ==
    /\ BtWalked /\ stop_type = "trailing" /\ stop_pct = -15 /\ bt.entry_price = 100
    /\ bt.day <= Len(ScenarioPath)
    /\ bt.day_prices = SubSeq(ScenarioPath, 1, bt.day)

\* C17: on the first day whose price is at or below the current stop line
\* the result gets exit_reason stop_loss, exit_price the stop line and
\* exit_day that day, and no later day is walked; without such a day there
\* is no stop.  For entry 100, stop -15% and day prices 100, 130, 105 the
\* stop lines are 85, 110.5, 110.5 and the exit is on day 3 at 110.5 with a
\* gross return of 10.5%.
C17_StopLossExit ==
    /\ BtWalked =>
          IF StopDays = {}
          THEN ~bt.is_stopped /\ bt.exit_reason = "hold"
          ELSE /\ bt.is_stopped
               /\ bt.exit_reason = "stop_loss"
               /\ bt.exit_day = SetMin(StopDays)
               /\ bt.exit_price = bt.stop_prices[bt.exit_day]
               /\ bt.day = bt.exit_day
    /\ OnScenario =>
          /\ bt.stop_prices = SubSeq(<<IntRat(85), Rat(221, 2), Rat(221, 2)>>, 1, bt.day)
          /\ bt.day = 3 =>
                /\ bt.is_stopped /\ bt.exit_reason = "stop_loss"
                /\ bt.exit_day = 3 /\ bt.exit_price = Rat(221, 2)
                /\ bt.pc = "done" => bt.final_return_gross = Some(1050)

C17_Witness ==
    OnScenario /\ bt.day = 3 /\ bt.pc = "done" /\ bt.is_stopped

\* the position PositionTracker holds after the ticks of the first k days
RECURSIVE TrackerAfter(_, _, _)
TrackerAfter(pos, day_prices, k) ==
    IF k = 0 THEN pos
    ELSE LET before == TrackerAfter(pos, day_prices, k - 1)
         IN  IF day_prices[k] = None THEN before
             ELSE TickResult(before.coin, before, Val(day_prices[k]), 1).pos

\* C18: for the same entry price, price path and risk configuration the stop
\* line the walk holds after each day equals the one get_stop_line reports
\* after the same ticks, under the trailing and under the fixed policy.
C18_WalkMatchesTracker ==
    BtWalked =>
        LET opened == NewPosition("BTC", bt.entry_price, 1, None, 1)
        IN  /\ bt.day = 0 => bt.current_stop_price = StopLineOfPos(opened)
            /\ \A k \in 1 .. bt.day :
                  bt.stop_prices[k] = StopLineOfPos(TrackerAfter(opened, bt.day_prices, k))

\* the returns entries recorded so far, each for a horizon day that was
\* walked with a price and, in a stopped walk, before the day of the stop
HorizonsInOrder ==
    \A r \in bt.returns :
        /\ r.day \in hold_days
        /\ r.day <= bt.day
        /\ bt.day_prices[r.day] # None
        /\ bt.is_stopped => r.day < bt.exit_day

\* C19 as stated: a horizon return is recorded only for a horizon day that
\* is reached with a price before any stop, a result stopped on day d has
\* no entry for a horizon >= d, and each recorded horizon has
\* gross = (price - entry) / entry * 100 and net = gross - total cost.
\* (Returns are in hundredths of a percent.)
C19_HorizonReturnsExact ==
    BtWalked =>
        /\ HorizonsInOrder
        /\ \A r \in bt.returns :
              /\ r.gross * bt.entry_price
                    = (Val(bt.day_prices[r.day]) - bt.entry_price) * 10000
              /\ r.net = r.gross - total_cost

\* C19 amended: as above, with the recorded gross being
\* (price - entry) / entry * 100 rounded to two decimals and the recorded
\* net being that percentage less the total cost, rounded to two decimals.
C19_HorizonReturnsRounded ==
    BtWalked =>
        /\ HorizonsInOrder
        /\ \A r \in bt.returns :
              LET exact == (Val(bt.day_prices[r.day]) - bt.entry_price) * 10000
              IN  /\ 2 * Abs(r.gross * bt.entry_price - exact) <= bt.entry_price
                  /\ 2 * Abs(r.net * bt.entry_price - (exact - total_cost * bt.entry_price))
                        <= bt.entry_price

\* a walk stopped after a horizon day was recorded with a return that does
\* not round to itself
C19_Witness ==
    /\ BtWalked /\ bt.is_stopped
    /\ \E r \in bt.returns :
          /\ r.day < bt.exit_day
          /\ r.gross * bt.entry_price # (Val(bt.day_prices[r.day]) - bt.entry_price) * 10000

\* C20: a walk that ends without a stop has exit_reason hold, exit_day
\* max(hold_days) and exit_price the close max(hold_days) days after the
\* signal date, and its final gross return is computed from that price.
C20_HoldExit ==
    (mode = "backtest" /\ bt.pc = "done" /\ ~bt.is_stopped) =>
        /\ bt.exit_reason = "hold"
        /\ bt.exit_day = max_hold_days
        /\ bt.day_prices[max_hold_days] # None
        /\ bt.exit_price = IntRat(Val(bt.day_prices[max_hold_days]))
        /\ bt.final_return_gross =
              Some(Round2(GrossPct(IntRat(Val(bt.day_prices[max_hold_days])), bt.entry_price)))

-----------------------------------------------------------------------------
(* The floor of a stop-loss exit of the backtest walk (Spec) *)

BtStoppedOut ==
    /\ mode = "backtest"
    /\ stop_type = "trailing"
    /\ stop_pct < 0
    /\ bt.exit_reason = "stop_loss"

\* C38: under the trailing policy with a negative stop_pct a result with
\* exit_reason stop_loss has exit_price >= entry_price * (1 + stop_pct/100);
\* its gross final return, exact or as recorded, is not below stop_pct.
C38_StopExitFloor ==
    BtStoppedOut =>
        /\ RLeq(Rat(bt.entry_price * (100 + stop_pct), 100), bt.exit_price)
        /\ RLeq(IntRat(stop_pct), GrossPct(bt.exit_price, bt.entry_price))
        /\ bt.pc = "done" => Val(bt.final_return_gross) >= stop_pct * 100

\* a finished walk stopped out by a close below the first stop line, and
\* recorded at that line
C38_Witness ==
    /\ BtStoppedOut
    /\ bt.pc = "done"
    /\ Val(bt.day_prices[bt.exit_day]) * 100 < bt.entry_price * (100 + stop_pct)
    /\ bt.final_return_gross = Some(stop_pct * 100)

-----------------------------------------------------------------------------

(* Missing prices and costs of the backtest walk (Spec) *)

\* C21: a walk that was never stopped and has no price max(hold_days) days
\* after the signal date ends without a final return (net or gross), and a
\* day of the walk without a price leaves the peak, the stop line and the
\* maximum drawdown as they were.
C21_MissingPriceOmitted ==
    [][ /\ ( /\ BacktestDay
             /\ bt'.day_prices[bt'.day] = None ) =>
                /\ bt'.max_price = bt.max_price
                /\ bt'.current_stop_price = bt.current_stop_price
                /\ bt'.max_drawdown = bt.max_drawdown
                /\ bt'.returns = bt.returns
                /\ ~bt'.is_stopped
        /\ ( /\ BacktestFinish
             /\ ~bt.is_stopped
             /\ bt.day_prices[max_hold_days] = None ) =>
                /\ bt'.final_return = None
                /\ bt'.final_return_gross = None ]_vars

\* C22: the final net return of a finished walk is its final gross return
\* less 2*fee_rate + slippage + execution_delay, whether it ended at a stop
\* or at the end of the holding period, and every recorded horizon's net
\* return is its gross return less the same cost.
C22_CostOnce ==
    (mode = "backtest" /\ bt.pc = "done") =>
        /\ Val(bt.final_return)
              = Val(bt.final_return_gross) - (2 * fee_rate + slippage + execution_delay)
        /\ \A r \in bt.returns :
              r.net = r.gross - (2 * fee_rate + slippage + execution_delay)

\* a walk stopped after a recorded horizon, its exit below the entry price
C22_Witness ==
    /\ mode = "backtest" /\ bt.pc = "done"
    /\ bt.is_stopped
    /\ bt.returns # {}
    /\ bt.exit_day > 1
    /\ Val(bt.final_return_gross) < 0

-----------------------------------------------------------------------------
(* Properties of the train/test validation (SpecValidation) *)

Validated == mode = "validation" /\ bt.pc = "validated" /\ bt.validation # None

\* the floor of n * train_ratio, train_ratio in percent
IsFloorOf(k, n, train_ratio) ==
    /\ 100 * k <= n * train_ratio
    /\ n * train_ratio < 100 * (k + 1)

DatesAscend(rs) == \A i, j \in 1 .. Len(rs) : i < j => rs[i].date <= rs[j].date

\* C23: the validation partitions the results: the train part has
\* int(n * train_ratio) results and the test part the others, each in
\* ascending date order, every result is in exactly one part and every train
\* date is <= every test date.
C23_TrainTestPartition ==
    Validated =>
        LET train == Val(bt.validation).train_results
            test == Val(bt.validation).test_results
            n == Len(bt.results)
        IN  /\ IsFloorOf(Len(train), n, bt.train_ratio)
            /\ Len(train) + Len(test) = n
            /\ Val(bt.validation).train.count = Len(train)
            /\ Val(bt.validation).test.count = Len(test)
            /\ Elems(train) \cup Elems(test) = Elems(bt.results)
            /\ Elems(train) \cap Elems(test) = {}
            /\ Cardinality(Elems(train)) = Len(train)
            /\ Cardinality(Elems(test)) = Len(test)
            /\ DatesAscend(train)
            /\ DatesAscend(test)
            /\ \A x \in Elems(train), y \in Elems(test) : x.date <= y.date

\* a split inside a date: both parts are non-empty and the last train result
\* has the date of the first test result
C23_Witness ==
    /\ Validated
    /\ LET train == Val(bt.validation).train_results
           test == Val(bt.validation).test_results
       IN  /\ train # <<>> /\ test # <<>>
           /\ train[Len(train)].date = test[1].date
           /\ Len(train) + Len(test) >= 3


\* the average of the final returns of rs as numerator and denominator, an
\* empty part counting as 0
AvgNum(rs) == IF rs = <<>> THEN 0 ELSE SumReturns(rs)
AvgDen(rs) == IF rs = <<>> THEN 1 ELSE Len(rs)

\* train average - test average, over DegradationDen
DegradationNum ==
    LET train == Val(bt.validation).train_results
        test == Val(bt.validation).test_results
    IN  AvgNum(train) * AvgDen(test) - AvgNum(test) * AvgDen(train)

DegradationDen ==
    AvgDen(Val(bt.validation).train_results) * AvgDen(Val(bt.validation).test_results)

\* C24: with degradation the train average net return less the test average
\* net return (the average of an empty part being 0), overfitting_risk is
\* HIGH exactly when degradation > 2.0, MEDIUM exactly when
\* 1.0 < degradation <= 2.0 and LOW exactly when degradation <= 1.0.
C24_OverfittingRisk ==
    Validated =>
        LET risk == Val(bt.validation).overfitting_risk
        IN  /\ risk \in {"HIGH", "MEDIUM", "LOW"}
            /\ risk = "HIGH" <=> DegradationNum > 200 * DegradationDen
            /\ risk = "MEDIUM" <=> /\ DegradationNum > 100 * DegradationDen
                                   /\ DegradationNum <= 200 * DegradationDen
            /\ risk = "LOW" <=> DegradationNum <= 100 * DegradationDen

\* a degradation of exactly 2.0 between two parts with more than one result
\* in the train part
C24_Witness ==
    /\ Validated
    /\ Len(Val(bt.validation).train_results) >= 2
    /\ Val(bt.validation).test_results # <<>>
    /\ DegradationNum = 200 * DegradationDen
    /\ Val(bt.validation).overfitting_risk = "MEDIUM"

-----------------------------------------------------------------------------
(* Pyramiding adds and several assets in one tick (Spec) *)

\* the step is the call add_position(coin, price, reasons, amount) on a coin
\* that has a position.  AddedAmount and AddedAt are implied by it and spare
\* its evaluation for the other coins, amounts and prices.
AddedAmount(coin, amount) ==
    /\ Tracked(positions, coin)
    /\ Tracked(positions', coin)
    /\ PosOf(positions', coin).amount = PosOf(positions, coin).amount + amount

AddedAt(coin, price, amount) ==
    PosOf(positions', coin).entry_price
        = add_amount(PosOf(positions, coin), price, amount).entry_price

IsAdd(coin, price, reasons, amount, today) ==
    /\ AddedAmount(coin, amount)
    /\ AddedAt(coin, price, amount)
    /\ add_position(coin, price, reasons, amount, today)

\* C25: after a pyramiding add the entry price lies between the old entry
\* price and the fill price, inclusive.
C25_EntryBetweenOldAndFill ==
    [][ \A coin \in Coins, amount \in Amounts :
          AddedAmount(coin, amount) =>
            \A price \in Prices :
              AddedAt(coin, price, amount) =>
                \A reasons \in ReasonArgs, today \in Dates :
                  IsAdd(coin, price, reasons, amount, today) =>
                    LET old == PosOf(positions, coin).entry_price
                        new == PosOf(positions', coin).entry_price
                    IN  /\ RLeq(RMin(old, IntRat(price)), new)
                        /\ RLeq(new, RMax(old, IntRat(price))) ]_vars

\* a position added to at a price other than its entry price: the average
\* is not a whole number and lies strictly between the two
C25_Witness ==
    \E c \in Coins :
        /\ Tracked(positions, c)
        /\ PosOf(positions, c).amount >= 2
        /\ PosOf(positions, c).entry_price[2] # 1

ReasonSet(reasons) == IF reasons = None THEN {} ELSE Elems(reasons)

C27_FixedStopLineConstant ==
    [][ stop_type = "fixed" =>
          \A c \in Coins :
              (Tracked(positions, c) /\ Tracked(positions', c)) =>
                  REq(Val(StopLineOf(positions, c)), Val(StopLineOf(positions', c))) ]_vars


\* C29: over the life of a position update_prices appends at most one
\* new-high event for it, and appends it on the tick whose price exceeds the
\* entry price when no earlier tick had (the recorded peak is not above the
\* entry price and no event was appended yet).
C29_NewHighAtMostOnce ==
    [][ /\ \A c \in Coins : new_highs_sent'[c] <= 1
        /\ TickShape =>
             \A prices \in PriceMaps, now \in Times :
                IsTick(prices, now) =>
                    \A c \in Ticked(prices) :
                        ( /\ new_highs_sent[c] = 0
                          /\ RLeq(IntRat(PosOf(positions, c).max_price),
                                  PosOf(positions, c).entry_price)
                          /\ RLt(PosOf(positions, c).entry_price, IntRat(Val(prices[c]))) )
                        => new_highs_sent'[c] = 1 ]_vars


\* the one-key dictionary of a coin
OnlyKey(prices, coin) == [c \in Coins |-> IF c = coin THEN prices[c] ELSE None]

\* one update_prices call per key, in the given order: the positions after
\* the last call and the events of all the calls
RECURSIVE SplitCalls(_, _, _, _)
SplitCalls(st, prices, order, now) ==
    IF order = <<>> THEN st
    ELSE LET call == UpdateLoop([positions |-> st.positions, events |-> NoEvents],
                                OnlyKey(prices, Head(order)), <<Head(order)>>, now)
         IN  SplitCalls(
                [ positions |-> call.positions,
                  events |-> [ stopped |-> st.events.stopped \cup call.events.stopped,
                               new_highs |-> st.events.new_highs \cup call.events.new_highs,
                               stop_line_raised |->
                                   st.events.stop_line_raised \cup call.events.stop_line_raised ] ],
                prices, Tail(order), now)

\* C28: from every state of the tracker, the loop of one update_prices call
\* gives the same positions and the same sets of events over the keys of the
\* dictionary in any order, one call per key in any order gives them too,
\* the outcome for a coin is that of the call with its key alone, and the
\* positions of the coins without a key are as they were.
C28_TickOrderInsensitive ==
    mode = "pair" =>
        \A prices \in PairPriceMaps, now \in PairTimes :
            LET start == [positions |-> positions, events |-> NoEvents]
                orders == ListOfSet(KeysOf(prices))
                whole == UpdateLoop(start, prices, CHOOSE o \in orders : TRUE, now)
            IN  /\ \A o \in orders :
                      /\ UpdateLoop(start, prices, o, now) = whole
                      /\ SplitCalls(start, prices, o, now) = whole
                /\ \A c \in KeysOf(prices) :
                      whole.positions[c]
                        = UpdateLoop(start, OnlyKey(prices, c), <<c>>, now).positions[c]
                /\ \A c \in Coins \ KeysOf(prices) :
                      whole.positions[c] = positions[c]

\* both assets ticked in one call: one stopped by it, the other at a new high
C28_Witness ==
    /\ mode = "pair"
    /\ \E c, d \in Coins :
          /\ c # d
          /\ \E e \in events.stopped : e.coin = c
          /\ \E e \in events.new_highs : e.coin = d
          /\ Tracked(positions, c) /\ PosOf(positions, c).status = "stopped"
          /\ Tracked(positions, d) /\ PosOf(positions, d).status = "open"

-----------------------------------------------------------------------------
(* Properties of the monitoring cycle (SpecMonitor) *)

\* a step of analyze_and_signal
CycleStep == mon.pc = "analyze" /\ mon'.pc \in {"backtest", "error"}

SavedAs(cycle, signal, type) ==
    \E i \in 1 .. Len(cycle.saved) :
        cycle.saved[i].coin = signal.coin /\ cycle.saved[i].type = type

NotSaved(cycle, signal) ==
    \A i \in 1 .. Len(cycle.saved) : cycle.saved[i].coin # signal.coin

\* C30: a cycle of analyze_and_signal handles a BUY signal by the position
\* of its asset.  Without a position the signal is saved as BUY and a
\* position is opened at the current price; with a position and pyramiding
\* disabled it is skipped; with a position, pyramiding enabled and a profit
\* below min_profit_pct it is skipped and not saved; with a position,
\* pyramiding enabled and a profit of at least min_profit_pct it is saved
\* with type ADD.
C30_BuyHandledByPosition ==
    [][ CycleStep =>
        LET cycle == Val(mon'.cycle)
        IN  \A i \in 1 .. Len(cycle.signals) :
              LET signal == cycle.signals[i]
                  c == signal.coin
              IN  signal.type = "BUY" =>
                    IF ~Tracked(positions, c)
                    THEN /\ SavedAs(cycle, signal, "BUY")
                         /\ cycle.price # None =>
                              /\ Tracked(positions', c)
                              /\ PosOf(positions', c).status = "open"
                              /\ PosOf(positions', c).entry_price = IntRat(Val(cycle.price))
                    ELSE IF ~mon.pyramiding_enabled
                    THEN NotSaved(cycle, signal)
                    ELSE IF RLt(get_return_pct(PosOf(positions', c)), IntRat(min_profit_pct))
                    THEN NotSaved(cycle, signal)
                    ELSE SavedAs(cycle, signal, "ADD") ]_vars

-----------------------------------------------------------------------------
(* The percentile scenario (SpecScorer) *)

Scored5(history) ==
    /\ mode = "percentile"
    /\ sig.pc = "scored"
    /\ sig.current_rate = 5
    /\ sig.history = history

\* C32 as stated: for the 9-value history [1,2,3,4,6,7,8,9,10] and the
\* current value 5 the percentile scorer returns 44.4.
C32_ScenarioPercentile ==
    Scored5(ScenarioHistory) => sig.percentile = Some(444)

\* C32, amended: for the 9-value history and the current value 5 the scorer
\* returns no percentile, nine samples being fewer than the 24 it asks for;
\* for the same values three times over (27 samples, 12 of them strictly
\* below 5, the same four ninths) it returns 44.4.
C32_ScenarioNeedsSamples ==
    /\ Scored5(ScenarioHistory) => sig.percentile = None
    /\ Scored5(ScenarioHistory \o ScenarioHistory \o ScenarioHistory) =>
            sig.percentile = Some(444)

C32_Witness ==
    /\ Scored5(ScenarioHistory \o ScenarioHistory \o ScenarioHistory)
    /\ sig.percentile = Some(444)

-----------------------------------------------------------------------------
(* The long/short step and the strengths emitted (SpecSignal) *)

\* the BUY call made for c
BuyCandidate(c) == HasCandidate(c) /\ CandidateOf(c).signal.type = "BUY"
\* the reason a step of the call for c appended
HasReason(c, k) ==
    \E i \in 1 .. Len(CandidateOf(c).signal.reasons) : CandidateOf(c).signal.reasons[i].k = k
\* long/short scoring is enabled and c's ratio is below longshort_extreme
LongShortExtreme(c) ==
    /\ sig.cfg.use_longshort
    /\ sig.coins[c].longshort # None
    /\ Val(sig.coins[c].longshort) < longshort_extreme

\* C33: a BUY candidate has strength extreme exactly when long/short
\* scoring is enabled, its ratio is below longshort_extreme and the
\* percentile step made it strong; without the percentile step the
\* candidate stays weak or medium as the reversal left it whatever the
\* ratio is, and a weak one without a reversal is not emitted.
C33_ExtremeNeedsStrong ==
    \A c \in Coins :
        BuyCandidate(c) =>
            LET cand == CandidateOf(c)
            IN  /\ cand.signal.strength = "extreme" <=>
                        (LongShortExtreme(c) /\ HasReason(c, "funding_pct"))
                /\ ~HasReason(c, "funding_pct") =>
                        /\ cand.signal.strength = IF cand.is_reversal THEN "medium" ELSE "weak"
                        /\ ~cand.is_reversal => ~EmittedPre(c)

\* one candidate made extreme on top of strong, another with the same ratio
\* left weak and not emitted
C33_Witness ==
    \E c, d \in Coins :
        /\ BuyCandidate(c) /\ BuyCandidate(d)
        /\ LongShortExtreme(c) /\ LongShortExtreme(d)
        /\ CandidateOf(c).signal.strength = "extreme"
        /\ CandidateOf(d).signal.strength = "weak" /\ ~EmittedPre(d)

-----------------------------------------------------------------------------
\* C37: every signal generate_signals returns had strength medium or higher
\* before the resonance pass, a confirmed reversal leaving its candidate at
\* medium or higher; so every signal of a batch the resonance pass applied
\* to is strong or extreme.
C37_NoWeakSignal ==
    SigDone =>
        /\ \A i \in 1 .. Len(sig.pre) : Rank(sig.pre[i].strength) >= 2
        /\ \A c \in Coins :
              (HasCandidate(c) /\ CandidateOf(c).is_reversal) =>
                    Rank(CandidateOf(c).signal.strength) >= 2
        /\ (ResonanceOn /\ Len(sig.pre) >= min_coins) =>
              /\ Len(sig.signals) = Len(sig.pre)
              /\ \A i \in 1 .. Len(sig.signals) : Rank(sig.signals[i].strength) >= 3

\* a batch the resonance pass applied to, one of whose signals was emitted
\* at medium on the reversal alone and returned as strong
C37_Witness ==
    /\ SigDone /\ ResonanceOn /\ Len(sig.pre) >= min_coins
    /\ \E i \in 1 .. Len(sig.pre) :
          /\ sig.pre[i].strength = "medium"
          /\ CandidateOf(sig.pre[i].coin).is_reversal
          /\ CandidateOf(sig.pre[i].coin).funding_pct = None
          /\ sig.signals[i].strength = "strong"

-----------------------------------------------------------------------------

(* Stopped positions: entering again, later ticks (Spec) *)

\* C34: add_position for an asset whose position update_prices has stopped
\* results in an open position of that asset with entry_price = max_price =
\* the price of the call.  (The amount of a position changes in add_position
\* only, by the amount of the call.)
C34_ReopenAfterStop ==
    [][ \A coin \in Coins, amount \in Amounts :
          ( /\ AddedAmount(coin, amount)
            /\ PosOf(positions, coin).status = "stopped" ) =>
              \A price \in Prices :
                AddedAt(coin, price, amount) =>
                    /\ PosOf(positions', coin).status = "open"
                    /\ PosOf(positions', coin).entry_price = IntRat(price)
                    /\ PosOf(positions', coin).max_price = price ]_vars


\* C35: update_prices does not touch a position that is not open: a tick
\* changes no field of a stopped position, max_price and current_price
\* included, and emits no new-high and no stop-line-raised event for it.
C35_TickSkipsStopped ==
    [][ \A c \in Coins :
          ( /\ Tracked(positions, c)
            /\ PosOf(positions, c).status = "stopped"
            /\ UpdatePrices ) =>
              /\ positions'[c] = positions[c]
              /\ \A e \in events'.new_highs \cup events'.stop_line_raised : e.coin # c ]_vars

-----------------------------------------------------------------------------
(* The stop check and the ADD signal of a monitoring cycle (SpecMonitor) *)

\* C36: in a cycle with a notifier configured, _check_stop_loss sends one
\* stop notification for each position the tick stopped and none for any
\* other, and returns normally, so that generate_signals runs in the cycle.
C36_StopNoticePerStop ==
    (mode = "monitor" /\ mon.cycle # None /\ mon.notifier) =>
        LET cycle == Val(mon.cycle)
        IN  /\ ~cycle.raised
            /\ Len(cycle.stop_notices) = Cardinality(events.stopped)
            /\ {cycle.stop_notices[i] : i \in 1 .. Len(cycle.stop_notices)}
                 = {e.coin : e \in events.stopped}


\* the position of coin c as the stop check of a cycle leaves it, the cycle
\* having collected the price cycle.price (entry_price, amount and max_price
\* do not depend on the time of the tick)
AfterStopCheck(cycle, c) ==
    IF cycle.price = None \/ c \notin LiveCoins THEN PosOf(positions, c)
    ELSE TickResult(c, PosOf(positions, c), Val(cycle.price), 1).pos

\* C39: a BUY signal for a tracked asset whose profit has reached
\* min_profit_pct, pyramiding being enabled, is turned into an ADD signal
\* and saved, and the signal handling of the cycle leaves the position's
\* entry_price, amount and max_price as they were.
C39_AddSavedPositionKept ==
    [][ CycleStep =>
        LET cycle == Val(mon'.cycle)
        IN  \A i \in 1 .. Len(cycle.signals) :
              LET signal == cycle.signals[i]
                  c == signal.coin
              IN  ( /\ signal.type = "BUY"
                    /\ Tracked(positions, c)
                    /\ mon.pyramiding_enabled
                    /\ RLeq(IntRat(min_profit_pct),
                            get_return_pct(AfterStopCheck(cycle, c))) ) =>
                      /\ SavedAs(cycle, signal, "ADD")
                      /\ Tracked(positions', c)
                      /\ PosOf(positions', c).entry_price = AfterStopCheck(cycle, c).entry_price
                      /\ PosOf(positions', c).amount = AfterStopCheck(cycle, c).amount
                      /\ PosOf(positions', c).max_price = AfterStopCheck(cycle, c).max_price ]_vars

-----------------------------------------------------------------------------
(* The monitoring loop (SpecMonitorFair) *)

\* C40: the monitoring loop does not end because of an error inside a
\* cycle.  A cycle that raises takes the loop into the error handler and
\* not out of run(); from the handler the loop goes on to another
\* analyze_and_signal cycle unless a keyboard interrupt arrives, and it does
\* get out of the handler; run() is left only with a keyboard interrupt.
C40_LoopSurvivesErrors ==
    /\ [][ /\ (CycleStep /\ Val(mon'.cycle).raised) => mon'.pc = "error"
           /\ mon.pc = "error" =>
                \/ mon'.pc = "analyze"
                \/ mon'.pc = "ended" /\ mon'.exc = Some("KeyboardInterrupt")
           /\ mon'.pc = "ended" => mon'.exc = Some("KeyboardInterrupt") ]_vars
    /\ (mode = "monitor" /\ mon.pc = "error") ~> (mon.pc \in {"analyze", "ended"})

\* the loop about to start a cycle after a cycle that raised
C40_Witness ==
    /\ mode = "monitor"
    /\ mon.pc = "analyze"
    /\ mon.cycle # None
    /\ Val(mon.cycle).raised
    /\ mon.exc = Some("TypeError")

=============================================================================
